---- MODULE Spec2Model ----
(***************************************************************************)
(* Donation intake application (donation/app.py): the donation_receipts    *)
(* table, the request handlers that write it (submit, the Stripe checkout  *)
(* and webhook handlers, the admin dashboard) and the pure helpers they    *)
(* use.  Every request handler is one atomic step of Spec.                 *)
(*                                                                         *)
(* Conventions.  A nullable value is a sequence of length at most one:     *)
(* NULL is <<>> (SQL NULL, Python None) and Some(v) is <<v>>.  A text the  *)
(* code inspects character by character (an amount, a metadata value) is a *)
(* sequence of one-character strings.  Non-ASCII literals of the source    *)
(* are written as ASCII tags: "genkin" for the kanji cash label,           *)
(* "furikomi" for the bank-transfer label, "credit_card_ja" for the        *)
(* katakana credit-card label, "yen" for the yen sign.                     *)
(***************************************************************************)
EXTENDS Integers, Sequences, FiniteSets, TLC

(***************************************************************************)
(* Bounds of the model.                                                    *)
(***************************************************************************)
\* Rows the main specification inserts into donation_receipts.
MaxReceipts == 1
\* Days the clock advances.
MaxClock == 1

(***************************************************************************)
(* Program constants.                                                      *)
(***************************************************************************)
DONATION_MIN_AMOUNT == 1000
DONATION_MAX_AMOUNT == 1000000
\* save_receipt keeps files for 24 * 60 * 60 seconds: one day of the clock.
RetentionDays == 1
\* LIMIT of the dashboard's list query.
DashboardLimit == 100
\* Width of the zero padding in the certificate number ({receipt_id:06d}).
CertificateIdWidth == 6

NULL == <<>>
Some(v) == <<v>>
\* SQL COALESCE(a, b), for nullable values.
COALESCE(a, b) == IF a = NULL THEN b ELSE a

GENKIN == "genkin"
FURIKOMI == "furikomi"
CREDIT_CARD_JA == "credit_card_ja"
ALLOWED_PAYMENT_METHODS == {GENKIN, FURIKOMI, CREDIT_CARD_JA}

(***************************************************************************)
(* Texts and numbers.                                                      *)
(***************************************************************************)
DigitChars == <<"0", "1", "2", "3", "4", "5", "6", "7", "8", "9">>
\* The full-width digits U+FF10..U+FF19, which \d matches and int() reads.
FullWidthDigitChars == <<"fw0", "fw1", "fw2", "fw3", "fw4", "fw5", "fw6", "fw7", "fw8", "fw9">>

\* c matches \d.
IsDigit(c) == \E i \in 1..10 : DigitChars[i] = c \/ FullWidthDigitChars[i] = c

\* int(c) of a digit character.
DigitValue(c) == (CHOOSE i \in 1..10 : DigitChars[i] = c \/ FullWidthDigitChars[i] = c) - 1

\* re.sub(r"[^\d]", "", s): the digit characters of s, in order.
RECURSIVE DigitsOnly(_)
DigitsOnly(s) ==
    IF s = <<>> THEN <<>>
    ELSE IF IsDigit(Head(s)) THEN <<Head(s)>> \o DigitsOnly(Tail(s))
    ELSE DigitsOnly(Tail(s))

\* int(s) of a non-empty sequence of digit characters.
RECURSIVE IntOfDigits(_)
IntOfDigits(s) ==
    IF s = <<>> THEN 0
    ELSE IntOfDigits(SubSeq(s, 1, Len(s) - 1)) * 10 + DigitValue(s[Len(s)])

\* str(n) for n >= 0: its decimal digits.
RECURSIVE DecimalString(_)
DecimalString(n) ==
    IF n < 10 THEN <<DigitChars[n + 1]>>
    ELSE DecimalString(n \div 10) \o <<DigitChars[(n % 10) + 1]>>

\* "0" * k.
RECURSIVE Zeros(_)
Zeros(k) == IF k <= 0 THEN <<>> ELSE <<"0">> \o Zeros(k - 1)

\* Variant of Format06d: the digits of n without padding.
Format06dUnpadded(n) == DecimalString(n)

\* Python's format(n, "06d") for n >= 0: zero padding up to the width, and
\* every digit of n beyond it.
Format06d(n) ==
    LET d == DecimalString(n)
    IN  Zeros(CertificateIdWidth - Len(d)) \o d

\* Variant of CertificateNo: the number does not depend on the row id.
CertificateNoWithoutId(year, receipt_id) ==
    <<"R", "C", "P", "T", "-">> \o DecimalString(year) \o <<"-">> \o Format06d(0)

\* f"RCPT-{donated_at.year}-{receipt_id:06d}"
CertificateNo(year, receipt_id) ==
    <<"R", "C", "P", "T", "-">> \o DecimalString(year) \o <<"-">> \o Format06d(receipt_id)

\* The result of a function that returns a value or raises.
Returned(v) == [raised |-> FALSE, value |-> v]
Raised == [raised |-> TRUE, value |-> 0]

\* int(text) as the handlers use it on metadata["receipt_id"]: the number
\* of an all-digit text; anything else raises.
TryInt(s) ==
    IF s # <<>> /\ \A i \in 1..Len(s) : IsDigit(s[i])
    THEN Returned(IntOfDigits(s))
    ELSE Raised

normalize_payment_method(payment_method) ==
    IF payment_method \in {"ginko_furikomi", FURIKOMI, "furikomi_kana"} THEN "bank_transfer"
    ELSE IF payment_method \in {CREDIT_CARD_JA} THEN "credit_card"
    ELSE "cash"

\* Variant of parse_amount_yen: no range check.
ParseAmountYenNoRange(raw_amount) ==
    LET digits_only == DigitsOnly(raw_amount)
    IN  IF digits_only = <<>> THEN Raised
        ELSE Returned(IntOfDigits(digits_only))

parse_amount_yen(raw_amount) ==
    LET digits_only == DigitsOnly(raw_amount)
        amount == IntOfDigits(digits_only)
    IN  IF digits_only = <<>> THEN Raised
        ELSE IF amount < DONATION_MIN_AMOUNT \/ amount > DONATION_MAX_AMOUNT THEN Raised
        ELSE Returned(amount)

(***************************************************************************)
(* State.                                                                  *)
(***************************************************************************)
VARIABLES
    receipts,        \* donation_receipts: row id -> row
    auto_increment,  \* the table's AUTO_INCREMENT: the id the next insert gets
    table_exists,    \* whether donation_receipts has been created
    files,           \* RECEIPT_DIR: token -> day the PDF was written
    uuid_seq,        \* number of uuid4() values drawn so far
    session,         \* session["dashboard_user"] of the browser: NULL or Some(name)
    now,             \* the clock (NOW(), datetime.now(JST)), in days
    year,            \* the calendar year of the clock
    config,          \* the environment the process loaded at start
    delivered,       \* history: row id -> id of the last webhook event handled for the row
    applied,         \* history: row id -> ids of the events whose update was executed on the row
    deleted_ids,     \* history: the row ids admin_delete has soft-deleted
    columns,         \* the columns of donation_receipts (empty: no table)
    threads          \* request handlers in progress: handler -> its position and locals

vars == <<receipts, auto_increment, table_exists, files, uuid_seq, session, now,
          year, config, delivered, applied, deleted_ids, columns, threads>>

Ids == DOMAIN receipts

\* The request handlers the server runs at the same time, and a handler
\* that is serving no request.
Handlers == {"h1", "h2"}
Idle == [pc |-> "idle"]

\* uuid4().hex of the n-th draw: a value no other draw returns.
UuidHex(n) == <<"u", "u", "i", "d">> \o DecimalString(n)

(***************************************************************************)
(* Configuration (module-level constants of app.py, read once at start).   *)
(***************************************************************************)
\* Everything set: test-mode Stripe keys, webhook secret, SMTP, both accounts.
DeployedConfig ==
    [ STRIPE_MODE |-> "test", STRIPE_SECRET_KEY |-> "sk_test_", STRIPE_PUBLISHABLE_KEY |-> "pk_test_",
      STRIPE_WEBHOOK_SECRET |-> "whsec", SMTP_USER |-> "mailer", SMTP_PASS |-> "secret",
      FROM_MAIL |-> "mailer", ADMIN_USERNAME |-> "admin", ADMIN_PASSWORD |-> "pw_admin",
      USER_USERNAME |-> "user", USER_PASSWORD |-> "pw_user" ]

\* A fresh checkout: no Stripe keys, no webhook secret, no SMTP, no user account.
BareConfig ==
    [ STRIPE_MODE |-> "test", STRIPE_SECRET_KEY |-> "", STRIPE_PUBLISHABLE_KEY |-> "",
      STRIPE_WEBHOOK_SECRET |-> "", SMTP_USER |-> "", SMTP_PASS |-> "",
      FROM_MAIL |-> "", ADMIN_USERNAME |-> "admin", ADMIN_PASSWORD |-> "pw_admin",
      USER_USERNAME |-> "user", USER_PASSWORD |-> "" ]

\* Keys present but no webhook secret.
NoWebhookSecretConfig == [DeployedConfig EXCEPT !.STRIPE_WEBHOOK_SECRET = "", !.SMTP_PASS = ""]

\* Variant of validate_stripe_ready: no check of the keys.
ValidateStripeReadyAny(c) == Returned(0)

\* A text that is a key prefix in this model stands for a key with that prefix.
validate_stripe_ready(c) ==
    IF c.STRIPE_SECRET_KEY = "" \/ c.STRIPE_PUBLISHABLE_KEY = "" THEN Raised
    ELSE IF c.STRIPE_MODE = "test"
         THEN IF c.STRIPE_SECRET_KEY # "sk_test_" THEN Raised
              ELSE IF c.STRIPE_PUBLISHABLE_KEY # "pk_test_" THEN Raised
              ELSE Returned(0)
    ELSE IF c.STRIPE_SECRET_KEY # "sk_live_" THEN Raised
    ELSE IF c.STRIPE_PUBLISHABLE_KEY # "pk_live_" THEN Raised
    ELSE Returned(0)

\* Variant of SmtpConfigured: no check of the SMTP settings.
SmtpConfiguredAny(c) == TRUE

SmtpConfigured(c) == ~(c.SMTP_USER = "" \/ c.SMTP_PASS = "" \/ c.FROM_MAIL = "")

\* Variant of get_dashboard_users: both accounts, whatever their passwords.
GetDashboardUsersAll(c) ==
    {<<c.ADMIN_USERNAME, c.ADMIN_PASSWORD>>, <<c.USER_USERNAME, c.USER_PASSWORD>>}

\* The dict get_dashboard_users() builds, as the set of its (name, password) items.
get_dashboard_users(c) ==
    LET admin == IF c.ADMIN_PASSWORD # "" THEN {<<c.ADMIN_USERNAME, c.ADMIN_PASSWORD>>} ELSE {}
        user  == IF c.USER_PASSWORD # "" THEN {<<c.USER_USERNAME, c.USER_PASSWORD>>} ELSE {}
    IN  IF user # {} /\ c.USER_USERNAME = c.ADMIN_USERNAME THEN user ELSE admin \cup user

(***************************************************************************)
(* The schema of donation_receipts.                                        *)
(***************************************************************************)
\* The columns of CREATE TABLE IF NOT EXISTS donation_receipts (...).
CreatedColumns ==
    { "id", "certificate_no", "donor_name", "donor_postal_code", "donor_address", "donor_email",
      "amount_yen", "payment_method", "donated_at", "download_token", "status", "is_checked",
      "checked_at", "checked_by", "is_deleted", "deleted_at", "deleted_by", "created_at" }

\* The columns ensure_receipts_table looks up in information_schema and adds
\* with ALTER TABLE when the count is 0, in the order of the code.
GuardedColumns ==
    << "donor_postal_code", "donor_address", "is_checked", "checked_at", "checked_by",
       "is_deleted", "deleted_at", "deleted_by", "stripe_checkout_session_id",
       "stripe_payment_intent_id", "stripe_last_event_id", "paid_at" >>

\* The columns after CREATE TABLE IF NOT EXISTS: an existing table is left as it is.
CreateTableIfNotExists(exists, cols) == IF exists THEN cols ELSE CreatedColumns

\* The columns after ensure_receipts_table has run with no other connection
\* changing the schema: every guarded column that was missing is added.
ensure_receipts_table(cols) ==
    cols \cup CreatedColumns \cup {GuardedColumns[i] : i \in 1..Len(GuardedColumns)}

(***************************************************************************)
(* Receipt store: the SQL statements, as functions of the table.           *)
(***************************************************************************)
\* INSERT INTO donation_receipts (...) VALUES (..., 'created'), with the
\* column defaults of CREATE TABLE, under row id `id`.
InsertReceipt(t, id, temp_certificate_no, form, donated_at, created_at) ==
    [i \in (DOMAIN t) \cup {id} |->
        IF i # id THEN t[i]
        ELSE [ id |-> id,
               certificate_no |-> temp_certificate_no,
               donor_name |-> form.name,
               donor_postal_code |-> form.postal_code,
               donor_address |-> form.address,
               donor_email |-> form.email,
               amount_yen |-> form.amount,
               payment_method |-> form.payment_method,
               donated_at |-> donated_at,
               download_token |-> NULL,
               status |-> "created",
               is_checked |-> 0, checked_at |-> NULL, checked_by |-> NULL,
               is_deleted |-> 0, deleted_at |-> NULL, deleted_by |-> NULL,
               created_at |-> created_at,
               stripe_checkout_session_id |-> NULL,
               stripe_payment_intent_id |-> NULL,
               stripe_last_event_id |-> NULL,
               paid_at |-> NULL ]]

\* UPDATE donation_receipts SET certificate_no=%s WHERE id=%s
StampCertificate(t, id, certificate_no) ==
    [t EXCEPT ![id].certificate_no = certificate_no]

\* create_receipt_record: the table after its commit, and the pair it
\* returns.  donated_at is <<year, day>>; receipt_id is cur.lastrowid, the
\* table's AUTO_INCREMENT value; uuid is the number of the uuid4() draw.
create_receipt_record(t, receipt_id, uuid, form, donated_at, created_at) ==
    LET temp_certificate_no == <<"T", "E", "M", "P", "-">> \o UuidHex(uuid)
        inserted == InsertReceipt(t, receipt_id, temp_certificate_no, form, donated_at, created_at)
        certificate_no == CertificateNo(donated_at[1], receipt_id)
    IN  [ receipts |-> StampCertificate(inserted, receipt_id, certificate_no),
          receipt_id |-> receipt_id,
          certificate_no |-> certificate_no ]

update_receipt_status(t, receipt_id, status, token) ==
    IF receipt_id \notin DOMAIN t THEN t
    ELSE [t EXCEPT ![receipt_id].status = status,
                   ![receipt_id].download_token = COALESCE(token, @)]

\* Variant of get_receipt_by_id: WHERE id=%s, soft-deleted rows included.
GetReceiptByIdUnfiltered(t, receipt_id) ==
    IF receipt_id \in DOMAIN t THEN Some(t[receipt_id]) ELSE NULL

\* SELECT ... WHERE id=%s AND is_deleted=0 LIMIT 1: NULL or Some(row).
get_receipt_by_id(t, receipt_id) ==
    IF receipt_id \in DOMAIN t /\ t[receipt_id].is_deleted = 0
    THEN Some(t[receipt_id]) ELSE NULL

\* SELECT ... WHERE certificate_no=%s AND is_deleted=0 LIMIT 1.  The unique
\* key uk_certificate_no leaves at most one match.
get_receipt_by_certificate_no(t, certificate_no) ==
    LET match == {i \in DOMAIN t : t[i].certificate_no = certificate_no /\ t[i].is_deleted = 0}
    IN  IF match = {} THEN NULL ELSE Some(t[CHOOSE i \in match : TRUE])

\* SELECT ... WHERE stripe_payment_intent_id=%s LIMIT 1, with no ORDER BY
\* and no unique key: the rows the database may return (none: no result).
get_receipt_by_stripe_payment_intent(t, payment_intent_id) ==
    {i \in DOMAIN t : t[i].stripe_payment_intent_id = Some(payment_intent_id)}

\* Variant of update_receipt_payment_status: the ids are assigned as given,
\* without COALESCE.
UpdateReceiptPaymentStatusAssign(t, receipt_id, status, checkout_session_id, payment_intent_id, stripe_event_id, at) ==
    IF receipt_id \notin DOMAIN t THEN t
    ELSE [t EXCEPT
            ![receipt_id].status = status,
            ![receipt_id].stripe_checkout_session_id = checkout_session_id,
            ![receipt_id].stripe_payment_intent_id = payment_intent_id,
            ![receipt_id].stripe_last_event_id = stripe_event_id,
            ![receipt_id].paid_at = IF status = "paid" THEN COALESCE(@, Some(at)) ELSE @]

\* Variant of update_receipt_payment_status: paid_at = NOW() on every paid update.
UpdateReceiptPaymentStatusOverwrite(t, receipt_id, status, checkout_session_id, payment_intent_id, stripe_event_id, at) ==
    IF receipt_id \notin DOMAIN t THEN t
    ELSE [t EXCEPT
            ![receipt_id].status = status,
            ![receipt_id].stripe_checkout_session_id = COALESCE(checkout_session_id, @),
            ![receipt_id].stripe_payment_intent_id = COALESCE(payment_intent_id, @),
            ![receipt_id].stripe_last_event_id = COALESCE(stripe_event_id, @),
            ![receipt_id].paid_at = IF status = "paid" THEN Some(at) ELSE @]

\* UPDATE donation_receipts SET status=..., ...=COALESCE(%s, ...),
\* paid_at=CASE WHEN %s='paid' THEN COALESCE(paid_at, NOW()) ELSE paid_at END WHERE id=%s
update_receipt_payment_status(t, receipt_id, status, checkout_session_id, payment_intent_id, stripe_event_id, at) ==
    IF receipt_id \notin DOMAIN t THEN t
    ELSE [t EXCEPT
            ![receipt_id].status = status,
            ![receipt_id].stripe_checkout_session_id = COALESCE(checkout_session_id, @),
            ![receipt_id].stripe_payment_intent_id = COALESCE(payment_intent_id, @),
            ![receipt_id].stripe_last_event_id = COALESCE(stripe_event_id, @),
            ![receipt_id].paid_at = IF status = "paid" THEN COALESCE(@, Some(at)) ELSE @]

\* save_receipt: files older than the retention period are unlinked, then
\* the PDF is written under a fresh token.
save_receipt(dir, token, at) ==
    LET kept == {k \in DOMAIN dir : ~(at - dir[k] > RetentionDays)}
    IN  [k \in kept \cup {token} |-> IF k = token THEN at ELSE dir[k]]

(***************************************************************************)
(* A handler is modelled in two parts: its result, a record of the HTTP    *)
(* response and of what the handler leaves in the database and on disk, as *)
(* a function of the state and the request; and its action, which installs *)
(* that result as the next state.                                          *)
(***************************************************************************)
\* The fields submit() reads from request.form, each after .strip().
Form(name, postal_code, address, email, amount, payment_method) ==
    [ name |-> name, postal_code |-> postal_code, address |-> address,
      email |-> email, amount |-> amount, payment_method |-> payment_method ]

Amount5000 == <<"5", "0", "0", "0">>
AmountYen1500 == <<"yen", "1", ",", "5", "0", "0">>
Amount999 == <<"9", "9", "9">>

CashForm == Form("Sato", "100-0001", "Tokyo", "sato@example.jp", Amount5000, GENKIN)
BankForm == Form("Sato", "100-0001", "Tokyo", "sato@example.jp", Amount5000, FURIKOMI)
CardForm == Form("Sato", "100-0001", "Tokyo", "sato@example.jp", AmountYen1500, CREDIT_CARD_JA)
CardForm999 == Form("", "100-0001", "Tokyo", "sato@example.jp", Amount999, CREDIT_CARD_JA)

ValidForms == {CashForm, BankForm, CardForm, CardForm999}

InvalidForms ==
    { Form("Sato", "", "Tokyo", "sato@example.jp", Amount5000, GENKIN),
      Form("Sato", "100-0001", "", "sato@example.jp", Amount5000, FURIKOMI),
      Form("Sato", "100-0001", "Tokyo", "", AmountYen1500, CREDIT_CARD_JA),
      Form("Sato", "100-0001", "Tokyo", "sato@example.jp", <<>>, CREDIT_CARD_JA),
      Form("Sato", "100-0001", "Tokyo", "sato@example.jp", Amount5000, ""),
      Form("Sato", "100-0001", "Tokyo", "sato@example.jp", Amount5000, "paypal") }

\* Variant of SubmitFormValid: no check of the form.
SubmitFormValidAny(form) == TRUE

\* The checks submit() makes before it opens the database.
SubmitFormValid(form) ==
    /\ ~(form.postal_code = "" \/ form.address = "" \/ form.email = "" \/ form.amount = <<>>)
    /\ (IF form.payment_method = "" THEN "mishitei" ELSE form.payment_method) \in ALLOWED_PAYMENT_METHODS

\* Variant of IssueStatus: issued for every payment method.
IssueStatusAlwaysIssued(payment_method) == "issued"

\* issue_status of submit().
IssueStatus(payment_method) ==
    IF normalize_payment_method(payment_method) = "credit_card" THEN "awaiting_payment" ELSE "issued"

(***************************************************************************)
(* Initial state: a started process, an empty database, an empty receipt   *)
(* directory, a browser that has not logged in.                            *)
(***************************************************************************)
ClockYear == 2026

InitWith(configs, first_ids, years) ==
    /\ receipts = <<>>
    /\ auto_increment \in first_ids
    /\ table_exists = FALSE
    /\ files = <<>>
    /\ uuid_seq = 0
    /\ session = NULL
    /\ now = 0
    /\ year \in years
    /\ config \in configs
    /\ delivered = <<>>
    /\ applied = <<>>
    /\ deleted_ids = {}
    /\ columns = {}
    /\ threads = [h \in Handlers |-> Idle]

(***************************************************************************)
(* The clock.                                                              *)
(***************************************************************************)
Tick ==
    /\ now < MaxClock
    /\ now' = now + 1
    /\ UNCHANGED <<receipts, auto_increment, table_exists, files, uuid_seq, session,
                   year, config, delivered, applied, deleted_ids, columns, threads>>

(***************************************************************************)
(* POST /submit.  db_create_ok, smtp_ok and db_update_ok say whether the   *)
(* first database connection, the SMTP exchange and the connection of the  *)
(* status update work.                                                     *)
(***************************************************************************)
\* What a handler leaves when it writes nothing.
SubmitNothing(code, kind) ==
    [ code |-> code, kind |-> kind, receipt_id |-> NULL, token |-> NULL,
      receipts |-> receipts, auto_increment |-> auto_increment, table_exists |-> table_exists,
      files |-> files, uuid_seq |-> uuid_seq,
      mail_attempts |-> 0 ]  \* calls of send_receipt_email

SubmitResult(form, db_create_ok, smtp_ok, db_update_ok) ==
    LET name == IF form.name = "" THEN "tokumei" ELSE form.name
        payment_method == IF form.payment_method = "" THEN "mishitei" ELSE form.payment_method
        stored == [form EXCEPT !.name = name, !.payment_method = payment_method]
        receipt_id == auto_increment
        created == create_receipt_record(receipts, receipt_id, uuid_seq + 1, stored, <<year, now>>, now).receipts
        mail_sent == SmtpConfigured(config) /\ smtp_ok
        token == UuidHex(uuid_seq + 2)
        payment_kind == normalize_payment_method(payment_method)
        inserted == [ SubmitNothing(0, "") EXCEPT !.receipt_id = Some(receipt_id),
                        !.auto_increment = auto_increment + 1, !.table_exists = TRUE,
                        !.mail_attempts = 1 ]
    IN  IF ~SubmitFormValid(form) THEN SubmitNothing(400, "abort")
        ELSE IF ~db_create_ok THEN SubmitNothing(500, "error")
        ELSE IF ~mail_sent
        THEN [ inserted EXCEPT !.code = 502, !.kind = "error", !.uuid_seq = uuid_seq + 1,
                 !.receipts = IF db_update_ok
                              THEN update_receipt_status(created, receipt_id, "mail_failed", NULL)
                              ELSE created ]
        ELSE [ inserted EXCEPT
                 !.code = IF payment_kind = "credit_card" THEN 302 ELSE 200,
                 !.kind = IF payment_kind = "credit_card" THEN "redirect_card_entry" ELSE "thanks",
                 !.token = IF payment_kind = "credit_card" THEN NULL ELSE Some(token),
                 !.uuid_seq = uuid_seq + 2,
                 !.files = save_receipt(files, token, now),
                 !.receipts = IF db_update_ok
                              THEN update_receipt_status(created, receipt_id, IssueStatus(payment_method), Some(token))
                              ELSE created ]

Submit(form, db_create_ok, smtp_ok, db_update_ok) ==
    LET result == SubmitResult(form, db_create_ok, smtp_ok, db_update_ok)
    IN  /\ result.receipt_id # NULL => Cardinality(DOMAIN receipts) < MaxReceipts
        /\ receipts' = result.receipts
        /\ auto_increment' = result.auto_increment
        /\ table_exists' = result.table_exists
        /\ columns' = IF result.receipt_id # NULL THEN ensure_receipts_table(columns) ELSE columns
        /\ files' = result.files
        /\ uuid_seq' = result.uuid_seq
        /\ delivered' = [i \in DOMAIN result.receipts |-> IF i \in DOMAIN delivered THEN delivered[i] ELSE NULL]
        /\ applied' = [i \in DOMAIN result.receipts |-> IF i \in DOMAIN applied THEN applied[i] ELSE {}]
        /\ UNCHANGED <<session, now, year, config, deleted_ids, threads>>

(***************************************************************************)
(* POST /api/stripe/checkout-session.  The request's JSON body carries     *)
(* receipt_id (absent, or a text int() is applied to) and certificate_no.  *)
(* db_ok: the database connection works; api_ok: Stripe accepts the call   *)
(* and returns a session with id session_id.                               *)
(***************************************************************************)
CheckoutRequest(receipt_id, certificate_no) ==
    [receipt_id |-> receipt_id, certificate_no |-> certificate_no]

CheckoutRequests ==
    { CheckoutRequest(Some(<<"1">>), <<>>), CheckoutRequest(Some(<<"2">>), <<>>),
      CheckoutRequest(Some(<<"x">>), <<>>), CheckoutRequest(NULL, <<>>),
      CheckoutRequest(NULL, CertificateNo(ClockYear, 1)),
      CheckoutRequest(NULL, CertificateNo(ClockYear, 9)) }

CheckoutSessionIds == {"cs_1", "cs_2"}

\* row = get_receipt_by_id(...) if receipt_id is not None else get_receipt_by_certificate_no(...)
CheckoutRow(t, request) ==
    IF request.receipt_id # NULL
    THEN get_receipt_by_id(t, TryInt(request.receipt_id[1]).value)
    ELSE get_receipt_by_certificate_no(t, request.certificate_no)

\* Variant of CheckoutMethodAccepted: no check of the payment method.
CheckoutMethodAcceptedAny(row) == TRUE

\* not (normalize_payment_method(row["payment_method"]) != "credit_card")
CheckoutMethodAccepted(row) == normalize_payment_method(row.payment_method) = "credit_card"

CheckoutNothing(code, kind) ==
    [ code |-> code, kind |-> kind, receipt_id |-> NULL, db_opened |-> FALSE,
      session_opened |-> FALSE, receipts |-> receipts, table_exists |-> table_exists ]

CreateCheckoutSessionResult(request, db_ok, api_ok, session_id) ==
    LET row == CheckoutRow(receipts, request)
        receipt_id == row[1].id
        opened == [CheckoutNothing(0, "") EXCEPT !.db_opened = TRUE, !.table_exists = TRUE]
        found == [opened EXCEPT !.receipt_id = Some(receipt_id)]
    IN  IF validate_stripe_ready(config).raised THEN CheckoutNothing(500, "not_ready")
        ELSE IF request.receipt_id # NULL /\ TryInt(request.receipt_id[1]).raised
        THEN CheckoutNothing(400, "receipt_id_not_a_number")
        ELSE IF request.receipt_id = NULL /\ request.certificate_no = <<>>
        THEN CheckoutNothing(400, "no_key")
        ELSE IF ~db_ok THEN CheckoutNothing(500, "exception")
        ELSE IF row = NULL THEN [opened EXCEPT !.code = 404, !.kind = "not_found"]
        ELSE IF ~CheckoutMethodAccepted(row[1])
        THEN [found EXCEPT !.code = 400, !.kind = "method_mismatch"]
        ELSE IF parse_amount_yen(row[1].amount_yen).raised
        THEN [found EXCEPT !.code = 500, !.kind = "exception"]
        ELSE IF ~api_ok
        THEN [found EXCEPT !.code = 500, !.kind = "exception"]
        ELSE [found EXCEPT !.code = 200, !.kind = "checkout_url", !.session_opened = TRUE,
                           !.receipts = update_receipt_payment_status(receipts, receipt_id,
                                            "checkout_created", Some(session_id), NULL, NULL, now)]

CreateCheckoutSession(request, db_ok, api_ok, session_id) ==
    LET result == CreateCheckoutSessionResult(request, db_ok, api_ok, session_id)
    IN  /\ receipts' = result.receipts
        /\ table_exists' = result.table_exists
        /\ columns' = IF result.db_opened THEN ensure_receipts_table(columns) ELSE columns
        /\ UNCHANGED <<auto_increment, files, uuid_seq, session, now, year, config,
                       delivered, applied, deleted_ids, threads>>

(***************************************************************************)
(* POST /api/stripe/webhook.  wire says what construct_event makes of the  *)
(* payload and its Stripe-Signature header; event is the event it returns. *)
(***************************************************************************)
StripeEvent(id, type, metadata_receipt_id, object_id, payment_intent) ==
    [ id |-> id, type |-> type,
      metadata_receipt_id |-> metadata_receipt_id,  \* obj["metadata"]["receipt_id"]: NULL or Some(text)
      object_id |-> object_id,                      \* obj["id"]
      payment_intent |-> payment_intent ]           \* obj["payment_intent"]: NULL or Some(id)

EventIds == {"evt_1", "evt_2"}

PaidEventTypes == {"checkout.session.completed", "payment_intent.succeeded"}
\* Variant of HandledEventTypes: charge.refunded falls into the last branch.
HandledEventTypesWithRefund == PaidEventTypes \cup {"payment_intent.payment_failed", "charge.refunded"}

HandledEventTypes == PaidEventTypes \cup {"payment_intent.payment_failed"}

WebhookEvents ==
    { StripeEvent(e, "checkout.session.completed", Some(m), "cs_1", pi) :
        e \in EventIds, m \in {<<"1">>, <<"2">>}, pi \in {NULL, Some("pi_1")} }
    \cup
    { StripeEvent(e, ty, m, "pi_1", NULL) :
        e \in EventIds, ty \in {"payment_intent.succeeded", "payment_intent.payment_failed"},
        m \in {NULL, Some(<<"1">>), Some(<<"2">>)} }
    \cup
    { StripeEvent("evt_1", "charge.refunded", Some(<<"1">>), "ch_1", Some("pi_1")),
      StripeEvent("evt_2", "checkout.session.completed", Some(<<"x">>), "cs_1", Some("pi_1")),
      StripeEvent("evt_2", "checkout.session.completed", NULL, "cs_1", Some("pi_1")) }

\* What stripe.Webhook.construct_event makes of the request body and its
\* Stripe-Signature header: the event, a ValueError or a
\* SignatureVerificationError.
WireResults == {"event", "invalid_payload", "invalid_signature"}

\* Variant of WireAccepted: the request is processed whatever construct_event says.
WireAcceptedAny(wire) == TRUE

\* construct_event returned: neither except clause answered 400.
WireAccepted(wire) == wire = "event"

\* receipt_id after lines 1196-1202: int(metadata["receipt_id"]) when the
\* value is non-empty and a number; 0 stands for None.
MetadataReceiptId(event) ==
    IF event.metadata_receipt_id = NULL \/ event.metadata_receipt_id = Some(<<>>) THEN 0
    ELSE IF TryInt(event.metadata_receipt_id[1]).raised THEN 0
    ELSE TryInt(event.metadata_receipt_id[1]).value

\* The handler looks the row up by payment intent: a payment_intent.* event
\* whose metadata gave no receipt id.
IntentLookup(event) ==
    /\ event.type \in {"payment_intent.succeeded", "payment_intent.payment_failed"}
    /\ MetadataReceiptId(event) = 0

\* The row ids the handler may go on with (0: none).
WebhookReceiptIds(t, event) ==
    IF ~IntentLookup(event) THEN {MetadataReceiptId(event)}
    ELSE IF get_receipt_by_stripe_payment_intent(t, event.object_id) = {} THEN {0}
    ELSE get_receipt_by_stripe_payment_intent(t, event.object_id)

\* Variant of AlreadyApplied: no replay guard.
AlreadyAppliedNever(row, event_id) == FALSE

\* not (row.get("stripe_last_event_id") != event_id)
AlreadyApplied(row, event_id) == row.stripe_last_event_id = Some(event_id)

\* Variant of WebhookRow: the row is loaded whether soft-deleted or not.
WebhookRowUnfiltered(t, receipt_id) ==
    IF receipt_id # 0 THEN GetReceiptByIdUnfiltered(t, receipt_id) ELSE NULL

\* `if receipt_id: row = get_receipt_by_id(conn, receipt_id)`
WebhookRow(t, receipt_id) ==
    IF receipt_id # 0 THEN get_receipt_by_id(t, receipt_id) ELSE NULL

\* The table after the branch of the event's type has run on row receipt_id.
WebhookUpdate(t, event, receipt_id, at) ==
    IF event.type = "checkout.session.completed"
    THEN update_receipt_payment_status(t, receipt_id, "paid", Some(event.object_id),
                                       event.payment_intent, Some(event.id), at)
    ELSE IF event.type = "payment_intent.succeeded"
    THEN update_receipt_payment_status(t, receipt_id, "paid", NULL,
                                       Some(event.object_id), Some(event.id), at)
    ELSE update_receipt_payment_status(t, receipt_id, "payment_failed", NULL,
                                       Some(event.object_id), Some(event.id), at)

WebhookNothing(code, kind) ==
    [ code |-> code, kind |-> kind, receipt_id |-> NULL, db_opened |-> FALSE,
      update_executed |-> FALSE, receipts |-> receipts, table_exists |-> table_exists ]

\* receipt_id is the row id the handler goes on with, one of
\* WebhookReceiptIds(receipts, event).
StripeWebhookResult(wire, event, db_ok, receipt_id) ==
    LET row == WebhookRow(receipts, receipt_id)
        handled == event.type \in HandledEventTypes /\ row # NULL
        execute == handled /\ ~AlreadyApplied(row[1], event.id)
    IN  IF validate_stripe_ready(config).raised THEN WebhookNothing(500, "not_ready")
        ELSE IF config.STRIPE_WEBHOOK_SECRET = "" THEN WebhookNothing(500, "no_webhook_secret")
        ELSE IF ~WireAccepted(wire) THEN WebhookNothing(400, wire)
        ELSE IF ~db_ok THEN WebhookNothing(500, "exception")
        ELSE [ WebhookNothing(200, "received") EXCEPT
                 !.db_opened = TRUE,
                 !.table_exists = TRUE,
                 !.receipt_id = IF handled THEN Some(receipt_id) ELSE NULL,
                 !.update_executed = execute,
                 !.receipts = IF execute THEN WebhookUpdate(receipts, event, receipt_id, now)
                              ELSE receipts ]

StripeWebhook(wire, event, db_ok, receipt_id) ==
    LET result == StripeWebhookResult(wire, event, db_ok, receipt_id)
    IN  /\ receipt_id \in WebhookReceiptIds(receipts, event)
        /\ receipts' = result.receipts
        /\ table_exists' = result.table_exists
        /\ columns' = IF result.db_opened THEN ensure_receipts_table(columns) ELSE columns
        /\ delivered' = IF result.receipt_id # NULL
                        THEN [delivered EXCEPT ![receipt_id] = Some(event.id)]
                        ELSE delivered
        /\ applied' = IF result.update_executed
                      THEN [applied EXCEPT ![receipt_id] = @ \cup {event.id}]
                      ELSE applied
        /\ UNCHANGED <<auto_increment, files, uuid_seq, session, now, year, config, deleted_ids, threads>>

(***************************************************************************)
(* The admin dashboard.                                                    *)
(***************************************************************************)
\* Variant of LoggedIn: the view runs for every browser.
LoggedInAnyone == TRUE

\* require_dashboard_login lets the view run.
LoggedIn == session # NULL

AdminNothing(code, kind) ==
    [ code |-> code, kind |-> kind, db_opened |-> FALSE, receipts |-> receipts,
      table_exists |-> table_exists, session |-> session ]

\* What an admin view leaves once its connection is open and ensure_receipts_table ran.
AdminOpened(code, kind) ==
    [AdminNothing(code, kind) EXCEPT !.db_opened = TRUE, !.table_exists = TRUE]

\* users.get(username) == password
CredentialsAccepted(c, username, password) ==
    <<username, password>> \in get_dashboard_users(c)

\* POST /admin/login
AdminLoginResult(username, password) ==
    IF CredentialsAccepted(config, username, password)
    THEN [AdminNothing(302, "redirect_dashboard") EXCEPT !.session = Some(username)]
    ELSE AdminNothing(401, "login_page")

AdminLogin(username, password) ==
    /\ session' = AdminLoginResult(username, password).session
    /\ UNCHANGED <<receipts, auto_increment, table_exists, files, uuid_seq, now, year,
                   config, delivered, applied, deleted_ids, columns, threads>>

\* POST /admin/logout
AdminLogout ==
    /\ session' = NULL
    /\ UNCHANGED <<receipts, auto_increment, table_exists, files, uuid_seq, now, year,
                   config, delivered, applied, deleted_ids, columns, threads>>

\* The members of a finite set of numbers as a sequence, largest first.
RECURSIVE Descending(_)
Descending(S) ==
    IF S = {} THEN <<>>
    ELSE LET m == CHOOSE x \in S : \A y \in S : y <= x
         IN  <<m>> \o Descending(S \ {m})

\* SELECT COUNT(*) FROM donation_receipts WHERE is_deleted=0
ActiveReceiptCount(t) == Cardinality({i \in DOMAIN t : t[i].is_deleted = 0})

\* SELECT ... WHERE is_deleted=0 ORDER BY id DESC LIMIT 100: the row ids.
ActiveReceiptList(t) ==
    LET ids == Descending({i \in DOMAIN t : t[i].is_deleted = 0})
    IN  SubSeq(ids, 1, IF Len(ids) > DashboardLimit THEN DashboardLimit ELSE Len(ids))

\* GET /admin: the page's total and rows, or the page with db_error.
AdminDashboardResult(db_ok) ==
    IF ~LoggedIn THEN AdminNothing(302, "redirect_login")
    ELSE IF ~db_ok THEN AdminNothing(200, [total |-> 0, rows |-> <<>>, db_error |-> TRUE])
    ELSE AdminOpened(200, [ total |-> ActiveReceiptCount(receipts),
                            rows |-> ActiveReceiptList(receipts),
                            db_error |-> FALSE ])

AdminDashboard(db_ok) ==
    /\ table_exists' = AdminDashboardResult(db_ok).table_exists
    /\ columns' = IF AdminDashboardResult(db_ok).db_opened THEN ensure_receipts_table(columns) ELSE columns
    /\ UNCHANGED <<receipts, auto_increment, files, uuid_seq, session, now, year,
                   config, delivered, applied, deleted_ids, threads>>

\* Variant of SetChecked: un-checking clears the flag and leaves the stamp.
SetCheckedKeepsStamp(t, receipt_id, checked, current_user, at) ==
    IF receipt_id \notin DOMAIN t \/ t[receipt_id].is_deleted # 0 THEN t
    ELSE IF checked
    THEN [t EXCEPT ![receipt_id].is_checked = 1, ![receipt_id].checked_at = Some(at),
                   ![receipt_id].checked_by = Some(current_user)]
    ELSE [t EXCEPT ![receipt_id].is_checked = 0]

\* UPDATE ... SET is_checked=1, checked_at=NOW(), checked_by=%s WHERE id=%s AND is_deleted=0
\* or     ... SET is_checked=0, checked_at=NULL, checked_by=NULL WHERE id=%s AND is_deleted=0
SetChecked(t, receipt_id, checked, current_user, at) ==
    IF receipt_id \notin DOMAIN t \/ t[receipt_id].is_deleted # 0 THEN t
    ELSE IF checked
    THEN [t EXCEPT ![receipt_id].is_checked = 1, ![receipt_id].checked_at = Some(at),
                   ![receipt_id].checked_by = Some(current_user)]
    ELSE [t EXCEPT ![receipt_id].is_checked = 0, ![receipt_id].checked_at = NULL,
                   ![receipt_id].checked_by = NULL]

\* POST /admin/confirm/<receipt_id>
AdminConfirmResult(receipt_id, checked, db_ok) ==
    IF ~LoggedIn THEN AdminNothing(302, "redirect_login")
    ELSE IF ~db_ok THEN AdminNothing(500, "error")
    ELSE [AdminOpened(302, "redirect_dashboard") EXCEPT
            !.receipts = SetChecked(receipts, receipt_id, checked, session[1], now)]

AdminConfirm(receipt_id, checked, db_ok) ==
    LET result == AdminConfirmResult(receipt_id, checked, db_ok)
    IN  /\ receipts' = result.receipts
        /\ table_exists' = result.table_exists
        /\ columns' = IF result.db_opened THEN ensure_receipts_table(columns) ELSE columns
        /\ UNCHANGED <<auto_increment, files, uuid_seq, session, now, year, config,
                       delivered, applied, deleted_ids, threads>>

\* Variant of SoftDelete: a second delete request restores the row.
SoftDeleteToggle(t, receipt_id, current_user, at) ==
    IF receipt_id \notin DOMAIN t THEN t
    ELSE [t EXCEPT ![receipt_id].is_deleted = 1 - @, ![receipt_id].deleted_at = Some(at),
                   ![receipt_id].deleted_by = Some(current_user)]

\* UPDATE ... SET is_deleted=1, deleted_at=NOW(), deleted_by=%s WHERE id=%s
SoftDelete(t, receipt_id, current_user, at) ==
    IF receipt_id \notin DOMAIN t THEN t
    ELSE [t EXCEPT ![receipt_id].is_deleted = 1, ![receipt_id].deleted_at = Some(at),
                   ![receipt_id].deleted_by = Some(current_user)]

\* POST /admin/delete/<receipt_id>
AdminDeleteResult(receipt_id, db_ok) ==
    IF ~LoggedIn THEN AdminNothing(302, "redirect_login")
    ELSE IF ~db_ok THEN AdminNothing(500, "error")
    ELSE [AdminOpened(302, "redirect_dashboard") EXCEPT
            !.receipts = SoftDelete(receipts, receipt_id, session[1], now)]

AdminDelete(receipt_id, db_ok) ==
    LET result == AdminDeleteResult(receipt_id, db_ok)
    IN  /\ receipts' = result.receipts
        /\ table_exists' = result.table_exists
        /\ columns' = IF result.db_opened THEN ensure_receipts_table(columns) ELSE columns
        /\ deleted_ids' = IF result.db_opened THEN deleted_ids \cup ({receipt_id} \cap DOMAIN receipts)
                          ELSE deleted_ids
        /\ UNCHANGED <<auto_increment, files, uuid_seq, session, now, year, config,
                       delivered, applied, threads>>

\* The fields admin_edit() reads from request.form, each after .strip();
\* donated_at and created_at are what parse_dt makes of the two date texts
\* (NULL: it raises ValueError).
EditForm(donor_name, amount_yen, payment_method, status, donated_at, created_at) ==
    [ donor_name |-> donor_name, donor_postal_code |-> "100-0001", donor_address |-> "Tokyo",
      donor_email |-> "sato@example.jp", amount_yen |-> amount_yen,
      payment_method |-> payment_method, status |-> status,
      donated_at_raw |-> "2025-12-31 10:00:00", created_at_raw |-> "2025-12-31 10:00:01",
      donated_at |-> donated_at, created_at |-> created_at ]

CardEditForm == EditForm("", AmountYen1500, CREDIT_CARD_JA, "awaiting_payment", Some(<<2025, 0>>), Some(0))
InvalidEditForms ==
    { EditForm("Sato", Amount5000, GENKIN, "", Some(<<2025, 0>>), Some(0)),
      EditForm("Sato", Amount5000, "paypal", "issued", Some(<<2025, 0>>), Some(0)),
      EditForm("Sato", Amount5000, GENKIN, "issued", NULL, Some(0)) }

\* The checks of admin_edit() before its UPDATE: required fields, the
\* payment method, parse_dt of both dates.
EditFormValid(form) ==
    /\ ~(\/ form.donor_postal_code = "" \/ form.donor_address = "" \/ form.donor_email = ""
         \/ form.amount_yen = <<>> \/ form.payment_method = "" \/ form.status = ""
         \/ form.donated_at_raw = "" \/ form.created_at_raw = "")
    /\ form.payment_method \in ALLOWED_PAYMENT_METHODS
    /\ form.donated_at # NULL
    /\ form.created_at # NULL

\* UPDATE ... SET donor_name=..., ..., created_at=%s WHERE id=%s AND is_deleted=0
EditFields(t, receipt_id, form) ==
    IF receipt_id \notin DOMAIN t \/ t[receipt_id].is_deleted # 0 THEN t
    ELSE [t EXCEPT ![receipt_id].donor_name = IF form.donor_name = "" THEN "tokumei" ELSE form.donor_name,
                   ![receipt_id].donor_postal_code = form.donor_postal_code,
                   ![receipt_id].donor_address = form.donor_address,
                   ![receipt_id].donor_email = form.donor_email,
                   ![receipt_id].amount_yen = form.amount_yen,
                   ![receipt_id].payment_method = form.payment_method,
                   ![receipt_id].status = form.status,
                   ![receipt_id].donated_at = form.donated_at[1],
                   ![receipt_id].created_at = form.created_at[1]]

\* GET /admin/edit/<receipt_id>: SELECT ... WHERE id=%s AND is_deleted=0 LIMIT 1,
\* the row the edit page shows.
AdminEditRow(t, receipt_id) ==
    IF receipt_id \in DOMAIN t /\ t[receipt_id].is_deleted = 0
    THEN Some(t[receipt_id]) ELSE NULL

\* POST /admin/edit/<receipt_id>
AdminEditResult(receipt_id, form, db_ok) ==
    IF ~LoggedIn THEN AdminNothing(302, "redirect_login")
    ELSE IF ~db_ok THEN AdminNothing(500, "error")
    ELSE IF ~EditFormValid(form) THEN AdminOpened(400, "edit_page_error")
    ELSE [AdminOpened(302, "redirect_dashboard") EXCEPT
            !.receipts = EditFields(receipts, receipt_id, form)]

AdminEdit(receipt_id, form, db_ok) ==
    LET result == AdminEditResult(receipt_id, form, db_ok)
    IN  /\ receipts' = result.receipts
        /\ table_exists' = result.table_exists
        /\ columns' = IF result.db_opened THEN ensure_receipts_table(columns) ELSE columns
        /\ UNCHANGED <<auto_increment, files, uuid_seq, session, now, year, config,
                       delivered, applied, deleted_ids, threads>>

(***************************************************************************)
(* The main specification: every handler is one atomic step.  The requests *)
(* are drawn from samples that take every branch of every handler, with    *)
(* the environment (database, SMTP, Stripe) failing on some of them.  The  *)
(* checkout, webhook, confirm and edit requests name the first row or a    *)
(* row that does not exist; every row can be soft-deleted.                 *)
(***************************************************************************)
MainConfigs == {DeployedConfig, BareConfig}

Init == InitWith(MainConfigs, {1}, {ClockYear})

\* <<form, db_create_ok, smtp_ok, db_update_ok>>
SubmitRequests ==
    { <<CashForm, TRUE, TRUE, TRUE>>, <<CardForm, TRUE, TRUE, TRUE>>,
      <<Form("Sato", "", "Tokyo", "sato@example.jp", Amount5000, GENKIN), TRUE, TRUE, TRUE>>,
      <<CashForm, FALSE, TRUE, TRUE>> }

\* <<request, db_ok, api_ok, session_id>>
CheckoutCalls ==
    { <<r, TRUE, TRUE, "cs_2">> :
        r \in { CheckoutRequest(Some(<<"1">>), <<>>), CheckoutRequest(Some(<<"x">>), <<>>),
                CheckoutRequest(NULL, <<>>), CheckoutRequest(NULL, CertificateNo(ClockYear, 9)) } }
    \cup { <<CheckoutRequest(Some(<<"1">>), <<>>), FALSE, TRUE, "cs_2">>,
           <<CheckoutRequest(Some(<<"1">>), <<>>), TRUE, FALSE, "cs_2">> }

MainEvents ==
    { StripeEvent("evt_1", "checkout.session.completed", Some(<<"1">>), "cs_1", Some("pi_1")),
      StripeEvent("evt_2", "payment_intent.succeeded", NULL, "pi_1", NULL),
      StripeEvent("evt_2", "payment_intent.payment_failed", Some(<<"1">>), "pi_1", NULL),
      StripeEvent("evt_1", "charge.refunded", Some(<<"1">>), "ch_1", Some("pi_1")) }

\* <<wire, event, db_ok>>
WebhookDeliveries ==
    { <<"event", e, TRUE>> : e \in MainEvents }
    \cup { <<w, e, TRUE>> : w \in WireResults \ {"event"},
                            e \in {StripeEvent("evt_2", "payment_intent.succeeded", NULL, "pi_1", NULL)} }
    \cup { <<"event", StripeEvent("evt_2", "payment_intent.succeeded", NULL, "pi_1", NULL), FALSE>> }

\* <<username, password>>
LoginAttempts == { <<"admin", "pw_admin">>, <<"admin", "">> }

\* The first row, and an id no row has.
RequestIds == {1, auto_increment}

Next ==
    \/ Tick
    \/ \E r \in SubmitRequests : Submit(r[1], r[2], r[3], r[4])
    \/ \E c \in CheckoutCalls : CreateCheckoutSession(c[1], c[2], c[3], c[4])
    \/ \E d \in WebhookDeliveries, receipt_id \in {0} \cup Ids : StripeWebhook(d[1], d[2], d[3], receipt_id)
    \/ \E a \in LoginAttempts : AdminLogin(a[1], a[2])
    \/ AdminLogout
    \/ \E db_ok \in BOOLEAN : AdminDashboard(db_ok)
    \/ \E receipt_id \in RequestIds, checked \in BOOLEAN, db_ok \in BOOLEAN :
          AdminConfirm(receipt_id, checked, db_ok)
    \/ \E receipt_id \in Ids \cup {auto_increment}, db_ok \in BOOLEAN : AdminDelete(receipt_id, db_ok)
    \/ \E receipt_id \in RequestIds, form \in {CardEditForm} \cup InvalidEditForms, db_ok \in BOOLEAN :
          AdminEdit(receipt_id, form, db_ok)

Spec == Init /\ [][Next]_vars

(***************************************************************************)
(* SpecPay: the payment bridge on its own.  Donations are submitted, their *)
(* checkout sessions created, webhook events delivered for the first two   *)
(* rows, and rows soft-deleted by a logged-in admin; the clock stands      *)
(* still.                                                                  *)
(***************************************************************************)
InitPay == InitWith({DeployedConfig, BareConfig, NoWebhookSecretConfig}, {1}, {ClockYear})

PaySubmissions == { <<CardForm, TRUE, TRUE, TRUE>>, <<CardForm, TRUE, FALSE, TRUE>> }

PayEvents ==
    { StripeEvent("evt_1", "checkout.session.completed", Some(<<"1">>), "cs_1", Some("pi_1")),
      StripeEvent("evt_2", "checkout.session.completed", Some(<<"2">>), "cs_1", NULL),
      StripeEvent("evt_2", "payment_intent.succeeded", NULL, "pi_1", NULL),
      StripeEvent("evt_1", "payment_intent.succeeded", Some(<<"2">>), "pi_1", NULL),
      StripeEvent("evt_1", "payment_intent.payment_failed", NULL, "pi_1", NULL),
      StripeEvent("evt_2", "payment_intent.payment_failed", Some(<<"1">>), "pi_1", NULL),
      StripeEvent("evt_1", "charge.refunded", Some(<<"1">>), "ch_1", Some("pi_1")),
      StripeEvent("evt_2", "checkout.session.completed", Some(<<"x">>), "cs_1", Some("pi_1")) }

PayDeliveries ==
    { <<"event", e, TRUE>> : e \in PayEvents }
    \cup { <<w, e, TRUE>> : w \in WireResults \ {"event"},
                            e \in {StripeEvent("evt_1", "checkout.session.completed", Some(<<"1">>), "cs_1", Some("pi_1"))} }
    \cup { <<"event", StripeEvent("evt_1", "checkout.session.completed", Some(<<"1">>), "cs_1", Some("pi_1")), FALSE>> }

NextPay ==
    \/ \E r \in PaySubmissions : Submit(r[1], r[2], r[3], r[4])
    \/ \E request \in {CheckoutRequest(Some(<<"1">>), <<>>), CheckoutRequest(Some(<<"2">>), <<>>)} :
          CreateCheckoutSession(request, TRUE, TRUE, "cs_1")
    \/ \E d \in PayDeliveries, receipt_id \in {0} \cup Ids : StripeWebhook(d[1], d[2], d[3], receipt_id)
    \/ AdminLogin("admin", "pw_admin")
    \/ \E receipt_id \in Ids : AdminDelete(receipt_id, TRUE)

SpecPay == InitPay /\ [][NextPay]_vars

(***************************************************************************)
(* SpecIntake: submissions and checkout-session requests, with rows        *)
(* soft-deleted by a logged-in admin.                                      *)
(***************************************************************************)
InitIntake == InitWith({DeployedConfig, BareConfig}, {1}, {ClockYear})

\* <<request, db_ok, api_ok, session_id>>
IntakeCheckoutCalls ==
    { <<r, TRUE, TRUE, "cs_2">> : r \in CheckoutRequests }
    \cup { <<CheckoutRequest(Some(<<"1">>), <<>>), FALSE, TRUE, "cs_2">>,
           <<CheckoutRequest(Some(<<"1">>), <<>>), TRUE, FALSE, "cs_2">> }

NextIntake ==
    \/ Tick
    \/ \E form \in {CashForm, BankForm, CardForm} \cup InvalidForms : Submit(form, TRUE, TRUE, TRUE)
    \/ \E r \in { <<CashForm, FALSE, TRUE, TRUE>>, <<CashForm, TRUE, FALSE, TRUE>>,
                  <<CardForm, TRUE, FALSE, FALSE>>, <<CashForm, TRUE, TRUE, FALSE>>,
                  <<CardForm, TRUE, TRUE, FALSE>> } : Submit(r[1], r[2], r[3], r[4])
    \/ \E c \in IntakeCheckoutCalls : CreateCheckoutSession(c[1], c[2], c[3], c[4])
    \/ AdminLogin("admin", "pw_admin")
    \/ \E receipt_id \in Ids : AdminDelete(receipt_id, TRUE)

SpecIntake == InitIntake /\ [][NextIntake]_vars

(***************************************************************************)
(* Properties of the webhook's replay guard and of the paid_at stamp.      *)
(***************************************************************************)
\* Every delivery the webhook endpoint can receive in the current state:
\* <<wire, event, db_ok, receipt_id>>.
DeliveriesNow ==
    { <<wire, event, db_ok, receipt_id>> :
        wire \in WireResults, event \in WebhookEvents, db_ok \in BOOLEAN,
        receipt_id \in {0} \cup Ids }

DeliveryPossible(d) == d[4] \in WebhookReceiptIds(receipts, d[2])

DeliveryResult(d) == StripeWebhookResult(d[1], d[2], d[3], d[4])

\* C1: when the last webhook event handled for a non-deleted receipt R had
\* id E, a next delivery carrying the same id E, of any of the three handled
\* types, leaves every column of R as it is.
ReplayIsNoOp ==
    \A r \in Ids : \A d \in DeliveriesNow :
        ( /\ receipts[r].is_deleted = 0
          /\ delivered[r] # NULL
          /\ d[2].id = delivered[r][1]
          /\ d[2].type \in HandledEventTypes
          /\ DeliveryPossible(d) )
        => DeliveryResult(d).receipts[r] = receipts[r]

\* A paid receipt whose last event was evt_1, and a payment_failed delivery
\* with the same id that the handler answers 200 without running the update.
ReplayIsNoOpWitness ==
    \E r \in Ids : \E d \in DeliveriesNow :
        /\ receipts[r].is_deleted = 0
        /\ receipts[r].status = "paid"
        /\ delivered[r] = Some("evt_1")
        /\ d[2].id = "evt_1"
        /\ d[2].type = "payment_intent.payment_failed"
        /\ DeliveryPossible(d)
        /\ DeliveryResult(d).code = 200
        /\ DeliveryResult(d).receipt_id = Some(r)
        /\ ~DeliveryResult(d).update_executed

\* C2: no delivery runs the payment update on a receipt with an event id
\* that an earlier delivery already ran the update with on that receipt.
EventAppliedAtMostOnce ==
    \A r \in Ids : \A d \in DeliveriesNow :
        ( /\ DeliveryPossible(d)
          /\ DeliveryResult(d).update_executed
          /\ DeliveryResult(d).receipt_id = Some(r) )
        => d[2].id \notin applied[r]

\* C3: once paid_at of a receipt is set, no step changes it.
PaidAtSetOnce ==
    [][ \A r \in Ids : receipts[r].paid_at # NULL => receipts'[r].paid_at = receipts[r].paid_at ]_vars

\* A receipt paid on day 0 on which two events have run the update, seen on
\* day 1 with the second event as its last one.
PaidAtSetOnceWitness ==
    \E r \in Ids :
        /\ receipts[r].paid_at = Some(0)
        /\ now = 1
        /\ receipts[r].status = "paid"
        /\ applied[r] = {"evt_1", "evt_2"}
        /\ receipts[r].stripe_last_event_id = Some("evt_2")

(***************************************************************************)
(* Soft deletion.                                                          *)
(***************************************************************************)
\* C4: a receipt that admin_delete soft-deleted is returned neither by
\* get_receipt_by_id nor by get_receipt_by_certificate_no, is not in the
\* dashboard's list, and is not counted in the dashboard's total.
SoftDeletedNeverReturned ==
    \A r \in deleted_ids :
        /\ get_receipt_by_id(receipts, r) = NULL
        /\ get_receipt_by_certificate_no(receipts, receipts[r].certificate_no) = NULL
        /\ LET page == AdminDashboardResult(TRUE)
           IN  page.code = 200 =>
                  /\ \A i \in 1..Len(page.kind.rows) : page.kind.rows[i] # r
                  /\ page.kind.total = Cardinality(Ids \ deleted_ids)

\* A logged-in admin's dashboard is served while a soft-deleted receipt is
\* in the table.
SoftDeletedNeverReturnedWitness ==
    \E r \in deleted_ids :
        /\ receipts[r].is_deleted = 1
        /\ AdminDashboardResult(TRUE).code = 200

(***************************************************************************)
(* Certificate numbers.  SpecCert runs submit() on databases whose         *)
(* AUTO_INCREMENT counter stands at ids of up to eight digits, in several  *)
(* years; the rows inserted before the first step are left out, as         *)
(* create_receipt_record reads none of them.                               *)
(***************************************************************************)
CertIds == {1, 42, 99999, 100000, 999999, 1000000, 1000001, 12345678}
CertYears == {2024, 2025, 2026, 2027, 2099}

InitCert == InitWith({DeployedConfig}, CertIds, CertYears)

NextCert ==
    \/ Tick
    \/ \E form \in {CashForm, CardForm, CardForm999},
          db_create_ok \in BOOLEAN, smtp_ok \in BOOLEAN, db_update_ok \in BOOLEAN :
          Submit(form, db_create_ok, smtp_ok, db_update_ok)

SpecCert == InitCert /\ [][NextCert]_vars

CertificateYearPart(c) == SubSeq(c, 6, 9)
CertificateIdPart(c) == SubSeq(c, 11, Len(c))

\* c reads "RCPT-", four digits that spell y, "-", and digits that spell id.
CertificateSpells(c, y, id) ==
    /\ Len(c) > 10
    /\ SubSeq(c, 1, 5) = <<"R", "C", "P", "T", "-">>
    /\ DigitsOnly(CertificateYearPart(c)) = CertificateYearPart(c)
    /\ IntOfDigits(CertificateYearPart(c)) = y
    /\ c[10] = "-"
    /\ DigitsOnly(CertificateIdPart(c)) = CertificateIdPart(c)
    /\ IntOfDigits(CertificateIdPart(c)) = id

\* The id part is the id zero-padded to six digits: six digits or more,
\* exactly six for an id below 10^6, and no leading zero beyond six.
IdPartPadded(c, id) ==
    /\ Len(CertificateIdPart(c)) >= CertificateIdWidth
    /\ id < 10^CertificateIdWidth => Len(CertificateIdPart(c)) = CertificateIdWidth
    /\ Len(CertificateIdPart(c)) > CertificateIdWidth => CertificateIdPart(c)[1] # "0"

\* What create_receipt_record returns and stores when it runs now.
CreatedNow ==
    create_receipt_record(receipts, auto_increment, uuid_seq + 1, CashForm, <<year, now>>, now)

\* C5: the certificate number create_receipt_record returns is the one it
\* stores, and it is "RCPT-", the four-digit year of donated_at, "-" and the
\* row's id zero-padded to at least six digits (exactly six below 10^6).
CertificateNumberFormat ==
    /\ \A r \in Ids :
          /\ CertificateSpells(receipts[r].certificate_no, receipts[r].donated_at[1], r)
          /\ IdPartPadded(receipts[r].certificate_no, r)
    /\ CreatedNow.receipts[CreatedNow.receipt_id].certificate_no = CreatedNow.certificate_no
    /\ CertificateSpells(CreatedNow.certificate_no, year, auto_increment)
    /\ IdPartPadded(CreatedNow.certificate_no, auto_increment)

\* submit() has stored the row with id 1000000.
CertificateNumberFormatWitness ==
    \E r \in Ids :
        /\ r = 1000000
        /\ receipts[r].status = "issued"
        /\ Len(CertificateIdPart(receipts[r].certificate_no)) = 7

\* C5 as stated: the id part has exactly six digits for every id.
CertificateIdExactlySixDigits ==
    /\ \A r \in Ids :
          /\ CertificateSpells(receipts[r].certificate_no, receipts[r].donated_at[1], r)
          /\ Len(CertificateIdPart(receipts[r].certificate_no)) = CertificateIdWidth
    /\ CertificateSpells(CreatedNow.certificate_no, year, auto_increment)
    /\ Len(CertificateIdPart(CreatedNow.certificate_no)) = CertificateIdWidth

(***************************************************************************)
(* Checkout sessions: the payment method and the amount of the receipt.    *)
(***************************************************************************)
\* Every call of the checkout endpoint: <<request, db_ok, api_ok, session_id>>.
CheckoutCallsNow ==
    { <<request, db_ok, api_ok, session_id>> :
        request \in CheckoutRequests, db_ok \in BOOLEAN, api_ok \in BOOLEAN,
        session_id \in CheckoutSessionIds }

CheckoutCallResult(c) == CreateCheckoutSessionResult(c[1], c[2], c[3], c[4])

\* The request's receipt_id, or without one its certificate_no, is row r's.
RequestNames(request, r) ==
    IF request.receipt_id # NULL
    THEN ~TryInt(request.receipt_id[1]).raised /\ TryInt(request.receipt_id[1]).value = r
    ELSE request.certificate_no = receipts[r].certificate_no

\* C7: a checkout-session request for a receipt whose payment method does
\* not normalize to credit_card creates no Stripe session and leaves the
\* table as it is; with Stripe configured, the database reachable and the
\* receipt not soft-deleted the answer is 400, method mismatch.
NonCardCheckoutRejected ==
    \A r \in Ids : \A c \in CheckoutCallsNow :
        ( /\ RequestNames(c[1], r)
          /\ normalize_payment_method(receipts[r].payment_method) # "credit_card" )
        => LET result == CheckoutCallResult(c)
           IN  /\ ~result.session_opened
               /\ result.receipts = receipts
               /\ result.code # 200
               /\ ( /\ ~validate_stripe_ready(config).raised
                    /\ c[2]
                    /\ receipts[r].is_deleted = 0 )
                  => /\ result.code = 400
                     /\ result.kind = "method_mismatch"

\* A bank-transfer receipt is in the table and a checkout request for it is
\* answered 400, method mismatch.
NonCardCheckoutRejectedWitness ==
    \E r \in Ids : \E c \in CheckoutCallsNow :
        /\ RequestNames(c[1], r)
        /\ receipts[r].payment_method = FURIKOMI
        /\ receipts[r].status = "issued"
        /\ CheckoutCallResult(c).code = 400
        /\ CheckoutCallResult(c).kind = "method_mismatch"

(***************************************************************************)
(* The webhook: checkout.session.completed, and rejected requests.         *)
(***************************************************************************)
\* validate_stripe_ready passes and STRIPE_WEBHOOK_SECRET is set: the
\* handler gets as far as construct_event.
WebhookConfigured ==
    ~validate_stripe_ready(config).raised /\ config.STRIPE_WEBHOOK_SECRET # ""

\* event is a checkout.session.completed event whose metadata names row r
\* and whose id is not the row's stored stripe_last_event_id.
CompletedEventFor(event, r) ==
    /\ event.type = "checkout.session.completed"
    /\ MetadataReceiptId(event) = r
    /\ receipts[r].stripe_last_event_id # Some(event.id)

\* C6: with the webhook configured, a validly signed
\* checkout.session.completed event for row R with a new event id leaves R
\* paid and stamped with the event id when R is not soft-deleted and the
\* database is reachable, whatever R's status was; for a soft-deleted R, or
\* with the database down, the table stays as it is.
CheckoutCompletedPaysActiveReceipt ==
    \A r \in Ids : \A event \in WebhookEvents : \A db_ok \in BOOLEAN :
        (WebhookConfigured /\ CompletedEventFor(event, r))
        => LET result == StripeWebhookResult("event", event, db_ok, r)
           IN  IF receipts[r].is_deleted = 0 /\ db_ok
               THEN /\ result.code = 200
                    /\ result.receipts[r].status = "paid"
                    /\ result.receipts[r].stripe_last_event_id = Some(event.id)
               ELSE result.receipts = receipts

\* A non-deleted receipt in status payment_failed that a new
\* checkout.session.completed event turns to paid.
CheckoutCompletedPaysActiveReceiptWitness ==
    \E r \in Ids : \E event \in WebhookEvents :
        /\ WebhookConfigured
        /\ CompletedEventFor(event, r)
        /\ receipts[r].is_deleted = 0
        /\ receipts[r].status = "payment_failed"
        /\ StripeWebhookResult("event", event, TRUE, r).receipts[r].status = "paid"

\* C6 as stated: the event leaves every existing receipt R paid.
CheckoutCompletedPaysEveryReceipt ==
    \A r \in Ids : \A event \in WebhookEvents :
        (WebhookConfigured /\ CompletedEventFor(event, r))
        => StripeWebhookResult("event", event, TRUE, r).receipts[r].status = "paid"

\* C10: a webhook request whose payload is malformed or whose signature is
\* invalid gets an error response, opens no database connection and leaves
\* the table as it is, in every state; with the webhook configured the
\* response is 400.
InvalidWebhookRejected ==
    \A d \in DeliveriesNow :
        d[1] \in {"invalid_payload", "invalid_signature"}
        => LET result == DeliveryResult(d)
           IN  /\ result.code >= 400
               /\ ~result.db_opened
               /\ ~result.update_executed
               /\ result.receipts = receipts
               /\ result.table_exists = table_exists
               /\ WebhookConfigured => result.code = 400

\* A receipt awaits payment; the delivery with an invalid signature is
\* answered 400, where the same event validly signed would have changed the
\* receipt.
InvalidWebhookRejectedWitness ==
    \E r \in Ids : \E d \in DeliveriesNow :
        /\ receipts[r].status = "awaiting_payment"
        /\ d[1] = "invalid_signature"
        /\ d[4] = r
        /\ DeliveryPossible(d)
        /\ DeliveryResult(d).code = 400
        /\ StripeWebhookResult("event", d[2], d[3], d[4]).receipts # receipts

(***************************************************************************)
(* submit(): the response and the status it leaves.                        *)
(***************************************************************************)
\* Every valid submission: <<form, db_create_ok, smtp_ok, db_update_ok>>.
ValidSubmissions ==
    { <<form, db_create_ok, smtp_ok, db_update_ok>> :
        form \in ValidForms, db_create_ok \in BOOLEAN, smtp_ok \in BOOLEAN,
        db_update_ok \in BOOLEAN }

SubmissionResult(s) == SubmitResult(s[1], s[2], s[3], s[4])

\* The row the submission inserted, as the handler leaves it.
SubmittedRow(s) == SubmissionResult(s).receipts[SubmissionResult(s).receipt_id[1]]

\* The handler reached one of its two normal returns.
NormalResponse(s) == SubmissionResult(s).code \in {200, 302}

CardSubmission(s) == normalize_payment_method(s[1].payment_method) = "credit_card"

\* C9: a valid submission that returns its normal response has saved a
\* PDF under a fresh token; the response is the redirect to the card-entry
\* URL for a credit-card submission and otherwise the thank-you page
\* carrying that token; and when the status update reached the database
\* the new row has status awaiting_payment (credit card) or issued
\* (otherwise) and the token as its download token, while a failed status
\* update leaves the row in status created without a download token.
SubmitNormalResponse ==
    \A s \in ValidSubmissions :
        NormalResponse(s)
        => LET result == SubmissionResult(s)
               token == UuidHex(uuid_seq + 2)
           IN  /\ token \in DOMAIN result.files
               /\ token \notin DOMAIN files
               /\ IF CardSubmission(s)
                  THEN result.code = 302 /\ result.kind = "redirect_card_entry"
                  ELSE result.code = 200 /\ result.kind = "thanks" /\ result.token = Some(token)
               /\ IF s[4]
                  THEN /\ SubmittedRow(s).status =
                             (IF CardSubmission(s) THEN "awaiting_payment" ELSE "issued")
                       /\ SubmittedRow(s).download_token = Some(token)
                  ELSE /\ SubmittedRow(s).status = "created"
                       /\ SubmittedRow(s).download_token = NULL

\* submit() has left a receipt in status awaiting_payment whose download
\* token names a saved PDF.
SubmitNormalResponseWitness ==
    \E r \in Ids :
        /\ receipts[r].status = "awaiting_payment"
        /\ receipts[r].download_token # NULL
        /\ receipts[r].download_token[1] \in DOMAIN files

\* C9 as stated: after every normal response the new row has status
\* awaiting_payment (credit card) or issued with the response's token stored.
SubmitNormalResponseSetsStatus ==
    \A s \in ValidSubmissions :
        NormalResponse(s)
        => IF CardSubmission(s)
           THEN /\ SubmittedRow(s).status = "awaiting_payment"
                /\ SubmissionResult(s).kind = "redirect_card_entry"
           ELSE /\ SubmittedRow(s).status = "issued"
                /\ SubmissionResult(s).kind = "thanks"
                /\ SubmissionResult(s).token # NULL
                /\ SubmissionResult(s).token[1] \in DOMAIN SubmissionResult(s).files
                /\ SubmittedRow(s).download_token = SubmissionResult(s).token

(***************************************************************************)
(* Amounts.  SpecAmount submits credit-card donations with the amount      *)
(* texts of AmountCases and requests checkout sessions for them.  Each     *)
(* case gives the text and the number its digit characters spell (NULL:    *)
(* the text has no digit).                                                 *)
(***************************************************************************)
AmountCase(text, digits) == [text |-> text, digits |-> digits]

AmountCases ==
    { AmountCase(<<"yen", "1", ",", "5", "0", "0">>, Some(1500)),
      AmountCase(<<"9", "9", "9">>, Some(999)),
      AmountCase(<<"1", "0", "0", "0">>, Some(1000)),
      AmountCase(<<"1", ",", "0", "0", "0", ",", "0", "0", "0">>, Some(1000000)),
      AmountCase(<<"1", "0", "0", "0", "0", "0", "1">>, Some(1000001)),
      AmountCase(<<"a", "b", "c">>, NULL),
      AmountCase(<<"0">>, Some(0)),
      AmountCase(<<"fw5", "fw0", "fw0", "fw0">>, Some(5000)),
      AmountCase(<<"-", "5", "0", "0", "0">>, Some(5000)),
      AmountCase(<<"1", "e", "4">>, Some(14)),
      AmountCase(<<"3", "0", "0", "0", ".", "5", "0">>, Some(300050)),
      AmountCase(<<"0", "0", "2", "0", "0", "0", " ", "e", "n">>, Some(2000)) }

InitAmount == InitWith({DeployedConfig}, {1}, {ClockYear})

NextAmount ==
    \/ Tick
    \/ \E case \in AmountCases, smtp_ok \in BOOLEAN :
          Submit([CardForm EXCEPT !.amount = case.text], TRUE, smtp_ok, TRUE)
    \/ \E request \in {CheckoutRequest(Some(<<"1">>), <<>>), CheckoutRequest(NULL, CertificateNo(ClockYear, 1))},
          db_ok \in BOOLEAN, api_ok \in BOOLEAN, session_id \in CheckoutSessionIds :
          CreateCheckoutSession(request, db_ok, api_ok, session_id)

SpecAmount == InitAmount /\ [][NextAmount]_vars

\* The number the case's digits spell lies in the accepted range.
AmountInRange(case) ==
    /\ case.digits # NULL
    /\ case.digits[1] >= DONATION_MIN_AMOUNT
    /\ case.digits[1] <= DONATION_MAX_AMOUNT

\* C8: for the stored amount text of every receipt, parse_amount_yen
\* returns the number its digit characters spell when that number is in
\* [DONATION_MIN_AMOUNT, DONATION_MAX_AMOUNT] and raises otherwise; and a
\* checkout request for a receipt whose amount makes it raise opens no
\* checkout session, is not answered 200, and leaves the table as it is.
AmountParsedOrRejected ==
    \A r \in Ids :
        /\ \A case \in AmountCases :
              case.text = receipts[r].amount_yen
              => IF AmountInRange(case)
                 THEN parse_amount_yen(receipts[r].amount_yen) = Returned(case.digits[1])
                 ELSE parse_amount_yen(receipts[r].amount_yen).raised
        /\ \A c \in CheckoutCallsNow :
              (RequestNames(c[1], r) /\ parse_amount_yen(receipts[r].amount_yen).raised)
              => LET result == CheckoutCallResult(c)
                 IN  /\ ~result.session_opened
                     /\ result.code # 200
                     /\ result.receipts = receipts

\* A credit-card receipt with amount 999 awaits payment and its checkout
\* request is answered 500 after the row was found.
AmountParsedOrRejectedWitness ==
    \E r \in Ids : \E c \in CheckoutCallsNow :
        /\ receipts[r].amount_yen = <<"9", "9", "9">>
        /\ receipts[r].status = "awaiting_payment"
        /\ RequestNames(c[1], r)
        /\ CheckoutCallResult(c).code = 500
        /\ CheckoutCallResult(c).receipt_id = Some(r)
        /\ c[2] /\ c[3]

(***************************************************************************)
(* The webhook: event types it does not handle.                            *)
(***************************************************************************)
\* C11: a validly signed webhook event whose type is none of
\* checkout.session.completed, payment_intent.succeeded and
\* payment_intent.payment_failed leaves every field of every receipt as it
\* is, stripe_last_event_id included, and runs no update; with the webhook
\* configured and the database reachable it is answered 200.
UnhandledEventIgnored ==
    \A d \in DeliveriesNow :
        ( /\ d[1] = "event"
          /\ d[2].type \notin {"checkout.session.completed", "payment_intent.succeeded",
                               "payment_intent.payment_failed"}
          /\ DeliveryPossible(d) )
        => LET result == DeliveryResult(d)
           IN  /\ result.receipts = receipts
               /\ ~result.update_executed
               /\ (WebhookConfigured /\ d[3]) => (result.code = 200 /\ result.kind = "received")

\* A paid receipt whose last event is evt_2; a charge.refunded event evt_1
\* naming it is answered 200 without an update, where a payment_failed
\* event of the same id and metadata would have changed the receipt.
UnhandledEventIgnoredWitness ==
    \E r \in Ids : \E d \in DeliveriesNow :
        /\ receipts[r].status = "paid"
        /\ receipts[r].stripe_last_event_id = Some("evt_2")
        /\ d[1] = "event"
        /\ d[2].type = "charge.refunded"
        /\ MetadataReceiptId(d[2]) = r
        /\ DeliveryPossible(d)
        /\ DeliveryResult(d).code = 200
        /\ DeliveryResult(d).db_opened
        /\ DeliveryResult(d).receipts = receipts
        /\ StripeWebhookResult("event", [d[2] EXCEPT !.type = "payment_intent.payment_failed"],
                               TRUE, r).receipts # receipts

(***************************************************************************)
(* Concurrent webhook deliveries.  A handler in progress is a thread: its  *)
(* position and its local variables.  stripe_webhook runs in four steps,   *)
(* each one statement on the shared table: the start up to the receipt id  *)
(* (with the lookup by payment intent), the read of the row, the           *)
(* comparison of the row's last event id, and the UPDATE.                  *)
(***************************************************************************)
WebhookThread(pc, event, receipt_id, row, wrote_at) ==
    [ pc |-> pc, event |-> event, receipt_id |-> receipt_id,
      row |-> row,            \* what get_receipt_by_id returned to this handler
      wrote_at |-> wrote_at ] \* the time of this handler's UPDATE: NULL or Some(day)

\* Lines 1171-1202, and 1221-1223 or 1237-1239: the checks, construct_event,
\* the connection, ensure_receipts_table, and the receipt id from the
\* metadata or from the lookup by payment intent.
WebhookBegin(h, wire, event, db_ok, receipt_id) ==
    LET result == StripeWebhookResult(wire, event, db_ok, receipt_id)
        goes_on == result.db_opened /\ event.type \in HandledEventTypes /\ receipt_id # 0
    IN  /\ threads[h] = Idle
        /\ receipt_id \in WebhookReceiptIds(receipts, event)
        /\ threads' = [threads EXCEPT ![h] =
                         WebhookThread(IF goes_on THEN "read" ELSE "done", event,
                                       IF goes_on THEN receipt_id ELSE 0, NULL, NULL)]
        /\ table_exists' = (table_exists \/ result.db_opened)
        /\ columns' = IF result.db_opened THEN ensure_receipts_table(columns) ELSE columns
        /\ UNCHANGED <<receipts, auto_increment, files, uuid_seq, session, now, year, config,
                       delivered, applied, deleted_ids>>

\* row = get_receipt_by_id(conn, receipt_id)
WebhookRead(h) ==
    /\ threads[h].pc = "read"
    /\ threads' = [threads EXCEPT ![h].pc = "compare",
                                  ![h].row = WebhookRow(receipts, threads[h].receipt_id)]
    /\ UNCHANGED <<receipts, auto_increment, table_exists, files, uuid_seq, session, now, year,
                   config, delivered, applied, deleted_ids, columns>>

\* if row and row.get("stripe_last_event_id") != event_id
WebhookCompare(h) ==
    LET row == threads[h].row
        execute == row # NULL /\ ~AlreadyApplied(row[1], threads[h].event.id)
    IN  /\ threads[h].pc = "compare"
        /\ threads' = [threads EXCEPT ![h].pc = IF execute THEN "write" ELSE "done"]
        /\ delivered' = IF row # NULL
                        THEN [delivered EXCEPT ![threads[h].receipt_id] = Some(threads[h].event.id)]
                        ELSE delivered
        /\ UNCHANGED <<receipts, auto_increment, table_exists, files, uuid_seq, session, now,
                       year, config, applied, deleted_ids, columns>>

\* update_receipt_payment_status(conn, ...), and the response.
WebhookWrite(h) ==
    /\ threads[h].pc = "write"
    /\ receipts' = WebhookUpdate(receipts, threads[h].event, threads[h].receipt_id, now)
    /\ threads' = [threads EXCEPT ![h].pc = "done", ![h].wrote_at = Some(now)]
    /\ applied' = [applied EXCEPT ![threads[h].receipt_id] = @ \cup {threads[h].event.id}]
    /\ UNCHANGED <<auto_increment, table_exists, files, uuid_seq, session, now, year, config,
                   delivered, deleted_ids, columns>>

NoHandlerRunning == \A h \in Handlers : threads[h] = Idle

(***************************************************************************)
(* SpecWebhookRace: credit-card donations are submitted and their checkout *)
(* sessions created; then each of the two handlers takes one webhook       *)
(* delivery, and their steps interleave in every order while the clock     *)
(* runs.                                                                   *)
(***************************************************************************)
RaceEvents ==
    { StripeEvent("evt_1", "checkout.session.completed", Some(<<"1">>), "cs_1", Some("pi_1")),
      StripeEvent("evt_2", "checkout.session.completed", Some(<<"1">>), "cs_1", NULL),
      StripeEvent("evt_2", "payment_intent.succeeded", NULL, "pi_1", NULL),
      StripeEvent("evt_2", "payment_intent.payment_failed", Some(<<"1">>), "pi_1", NULL) }

InitWebhookRace == InitWith({DeployedConfig}, {1}, {ClockYear})

NextWebhookRace ==
    \/ Tick
    \/ NoHandlerRunning /\ Submit(CardForm, TRUE, TRUE, TRUE)
    \/ NoHandlerRunning /\ CreateCheckoutSession(CheckoutRequest(Some(<<"1">>), <<>>), TRUE, TRUE, "cs_1")
    \/ \E h \in Handlers, event \in RaceEvents, receipt_id \in {0} \cup Ids :
          WebhookBegin(h, "event", event, TRUE, receipt_id)
    \/ \E h \in Handlers : WebhookRead(h)
    \/ \E h \in Handlers : WebhookCompare(h)
    \/ \E h \in Handlers : WebhookWrite(h)

SpecWebhookRace == InitWebhookRace /\ [][NextWebhookRace]_vars

\* Both handlers have finished a paid-type event for row r, with different
\* event ids.
BothPaidHandlersDone(r) ==
    /\ \A h \in Handlers :
          /\ threads[h].pc = "done"
          /\ threads[h].receipt_id = r
          /\ threads[h].event.type \in {"checkout.session.completed", "payment_intent.succeeded"}
    /\ threads["h1"].event.id # threads["h2"].event.id

\* The time of the first UPDATE the handlers executed, as a set: empty when
\* neither wrote.
FirstWriteAt ==
    { t \in 0..MaxClock :
        /\ \E h \in Handlers : threads[h].wrote_at = Some(t)
        /\ \A h \in Handlers : threads[h].wrote_at # NULL => threads[h].wrote_at[1] >= t }

\* C12: when two webhook handlers, each with a paid-type event and with
\* different event ids, have run concurrently for the same non-deleted
\* receipt and both have finished, the receipt's status is paid and its
\* paid_at is the time of whichever UPDATE was executed first.
ConcurrentPaidEventsConverge ==
    \A r \in Ids :
        (receipts[r].is_deleted = 0 /\ BothPaidHandlersDone(r))
        => /\ receipts[r].status = "paid"
           /\ FirstWriteAt # {}
           /\ \A t \in FirstWriteAt : receipts[r].paid_at = Some(t)

\* Both handlers read the row before either wrote: h2 finished with a row
\* that carries no event id, wrote on day 1 after h1 wrote on day 0, and
\* paid_at is day 0.
ConcurrentPaidEventsConvergeWitness ==
    \E r \in Ids :
        /\ BothPaidHandlersDone(r)
        /\ threads["h1"].wrote_at = Some(0)
        /\ threads["h2"].wrote_at = Some(1)
        /\ threads["h2"].row # NULL
        /\ threads["h2"].row[1].stripe_last_event_id = NULL
        /\ receipts[r].status = "paid"
        /\ receipts[r].paid_at = Some(0)
        /\ receipts[r].stripe_last_event_id = Some(threads["h2"].event.id)

(***************************************************************************)
(* Concurrent schema setup.  Every handler runs ensure_receipts_table on   *)
(* its own connection: CREATE TABLE IF NOT EXISTS, then for each guarded   *)
(* column a count query on information_schema.COLUMNS and, when the        *)
(* count is 0, an ALTER TABLE ... ADD COLUMN.  Each statement is one step. *)
(* MySQL answers ADD COLUMN of a column the table has with error 1060      *)
(* (duplicate column name), which pymysql raises; ensure_receipts_table    *)
(* has no except clause, so the handler's request fails.                   *)
(***************************************************************************)
\* column: the index in GuardedColumns of the column the handler is at.
EnsureThread(pc, column) == [pc |-> pc, column |-> column]

\* The handler's position after it is through with guarded column i.
EnsureAfterColumn(i) ==
    IF i < Len(GuardedColumns) THEN EnsureThread("check", i + 1) ELSE EnsureThread("done", i)

\* get_db_connection() and cur.execute(sql): CREATE TABLE IF NOT EXISTS.
EnsureBegin(h) ==
    /\ threads[h] = Idle
    /\ table_exists' = TRUE
    /\ columns' = CreateTableIfNotExists(table_exists, columns)
    /\ threads' = [threads EXCEPT ![h] = EnsureThread("check", 1)]
    /\ UNCHANGED <<receipts, auto_increment, files, uuid_seq, session, now, year, config,
                   delivered, applied, deleted_ids>>

\* The count query for the column; if cur.fetchone()["cnt"] == 0
EnsureCheck(h) ==
    LET i == threads[h].column
        cnt == IF GuardedColumns[i] \in columns THEN 1 ELSE 0
    IN  /\ threads[h].pc = "check"
        /\ threads' = [threads EXCEPT ![h] = IF cnt = 0 THEN EnsureThread("alter", i)
                                             ELSE EnsureAfterColumn(i)]
        /\ UNCHANGED <<receipts, auto_increment, table_exists, files, uuid_seq, session, now,
                       year, config, delivered, applied, deleted_ids, columns>>

\* ALTER TABLE donation_receipts ADD COLUMN ...
EnsureAlter(h) ==
    LET i == threads[h].column
        duplicate == GuardedColumns[i] \in columns
    IN  /\ threads[h].pc = "alter"
        /\ columns' = columns \cup {GuardedColumns[i]}
        /\ threads' = [threads EXCEPT ![h] = IF duplicate THEN EnsureThread("failed", i)
                                             ELSE EnsureAfterColumn(i)]
        /\ UNCHANGED <<receipts, auto_increment, table_exists, files, uuid_seq, session, now,
                       year, config, delivered, applied, deleted_ids>>

\* SpecSchema: two handlers run ensure_receipts_table on a new database.
InitSchema == InitWith({DeployedConfig}, {1}, {ClockYear})

NextSchema ==
    \/ \E h \in Handlers : EnsureBegin(h)
    \/ \E h \in Handlers : EnsureCheck(h)
    \/ \E h \in Handlers : EnsureAlter(h)

SpecSchema == InitSchema /\ [][NextSchema]_vars

\* C13: when two handlers run ensure_receipts_table at the same time, in
\* every interleaving of their checks and ALTER TABLE statements no handler
\* fails, and once both are through the table has every guarded column.
ConcurrentEnsureCompletes ==
    /\ \A h \in Handlers : threads[h].pc # "failed"
    /\ (\A h \in Handlers : threads[h].pc = "done")
       => \A i \in 1..Len(GuardedColumns) : GuardedColumns[i] \in columns

(***************************************************************************)
(* Concurrent submissions.  submit() runs in three steps: up to the INSERT *)
(* of create_receipt_record, which gives the row its id and a placeholder  *)
(* certificate number; the UPDATE that stamps the number derived from the  *)
(* id; and the rest (commit, PDF, email, status update, response).  The    *)
(* table holds a row from its INSERT on.                                   *)
(***************************************************************************)
SubmitThread(pc, form, receipt_id) == [pc |-> pc, form |-> form, receipt_id |-> receipt_id]

\* Lines 1266-1283 and 574-584: the form checks, the connection,
\* ensure_receipts_table, the INSERT and cur.lastrowid.
SubmitBegin(h, form) ==
    LET stored == [form EXCEPT !.name = IF form.name = "" THEN "tokumei" ELSE form.name]
        receipt_id == auto_increment
        temp_certificate_no == <<"T", "E", "M", "P", "-">> \o UuidHex(uuid_seq + 1)
    IN  /\ threads[h] = Idle
        /\ SubmitFormValid(form)
        /\ receipts' = InsertReceipt(receipts, receipt_id, temp_certificate_no, stored, <<year, now>>, now)
        /\ auto_increment' = auto_increment + 1
        /\ uuid_seq' = uuid_seq + 1
        /\ table_exists' = TRUE
        /\ columns' = ensure_receipts_table(columns)
        /\ delivered' = [i \in DOMAIN receipts' |-> IF i \in DOMAIN delivered THEN delivered[i] ELSE NULL]
        /\ applied' = [i \in DOMAIN receipts' |-> IF i \in DOMAIN applied THEN applied[i] ELSE {}]
        /\ threads' = [threads EXCEPT ![h] = SubmitThread("stamp", stored, receipt_id)]
        /\ UNCHANGED <<files, session, now, year, config, deleted_ids>>

\* Lines 585-589: certificate_no from donated_at.year and receipt_id, and its UPDATE.
SubmitStamp(h) ==
    LET receipt_id == threads[h].receipt_id
    IN  /\ threads[h].pc = "stamp"
        /\ receipts' = StampCertificate(receipts, receipt_id,
                                        CertificateNo(receipts[receipt_id].donated_at[1], receipt_id))
        /\ threads' = [threads EXCEPT ![h].pc = "finish"]
        /\ UNCHANGED <<auto_increment, table_exists, files, uuid_seq, session, now, year,
                       config, delivered, applied, deleted_ids, columns>>

\* Lines 590 and 1304-1366: the commit, the email, save_receipt and the
\* status update, as in SubmitResult.
SubmitFinish(h, smtp_ok, db_update_ok) ==
    LET receipt_id == threads[h].receipt_id
        mail_sent == SmtpConfigured(config) /\ smtp_ok
        token == UuidHex(uuid_seq + 1)
        status == IF mail_sent THEN IssueStatus(threads[h].form.payment_method) ELSE "mail_failed"
    IN  /\ threads[h].pc = "finish"
        /\ receipts' = IF db_update_ok
                       THEN update_receipt_status(receipts, receipt_id, status,
                                                  IF mail_sent THEN Some(token) ELSE NULL)
                       ELSE receipts
        /\ files' = IF mail_sent THEN save_receipt(files, token, now) ELSE files
        /\ uuid_seq' = IF mail_sent THEN uuid_seq + 1 ELSE uuid_seq
        /\ threads' = [threads EXCEPT ![h].pc = "done"]
        /\ UNCHANGED <<auto_increment, table_exists, session, now, year, config, delivered,
                       applied, deleted_ids, columns>>

\* SpecSubmitRace: each of the two handlers serves one submission in steps,
\* among submissions served in one piece.
InitSubmitRace == InitWith({DeployedConfig}, {1, 999999}, {ClockYear})

NextSubmitRace ==
    \/ Tick
    \/ \E form \in {CashForm, CardForm} : Submit(form, TRUE, TRUE, TRUE)
    \/ \E h \in Handlers, form \in {CashForm, CardForm999} : SubmitBegin(h, form)
    \/ \E h \in Handlers : SubmitStamp(h)
    \/ \E h \in Handlers, smtp_ok \in BOOLEAN, db_update_ok \in BOOLEAN :
          SubmitFinish(h, smtp_ok, db_update_ok)

SpecSubmitRace == InitSubmitRace /\ [][NextSubmitRace]_vars

\* c is a placeholder of create_receipt_record: "TEMP-" and a uuid.
IsPlaceholderNo(c) == Len(c) > 5 /\ SubSeq(c, 1, 5) = <<"T", "E", "M", "P", "-">>

\* C14: no two receipt rows have the same certificate number, in every
\* state that concurrent submissions reach; a row between its INSERT and
\* its stamp carries a placeholder, and every other row the number derived
\* from its own id, so the final number is written after the INSERT has
\* produced the id.
CertificateNumbersUnique ==
    /\ \A r1 \in Ids : \A r2 \in Ids :
          r1 # r2 => receipts[r1].certificate_no # receipts[r2].certificate_no
    /\ \A r \in Ids :
          IF \E h \in Handlers : threads[h].pc = "stamp" /\ threads[h].receipt_id = r
          THEN IsPlaceholderNo(receipts[r].certificate_no)
          ELSE CertificateSpells(receipts[r].certificate_no, receipts[r].donated_at[1], r)
    /\ \A h \in Handlers : threads[h].pc \in {"stamp", "finish", "done"} => threads[h].receipt_id \in Ids

\* Two submissions raced on the INSERT: h2 inserted first and has not
\* stamped its row yet, h1 inserted after it and has finished.
CertificateNumbersUniqueWitness ==
    /\ threads["h2"].pc = "stamp"
    /\ threads["h1"].pc = "done"
    /\ threads["h2"].receipt_id < threads["h1"].receipt_id
    /\ IsPlaceholderNo(receipts[threads["h2"].receipt_id].certificate_no)
    /\ receipts[threads["h1"].receipt_id].certificate_no = CertificateNo(year, threads["h1"].receipt_id)
    /\ receipts[threads["h1"].receipt_id].status = "issued"

(***************************************************************************)
(* Lookups and soft-deleted rows.                                          *)
(***************************************************************************)
PaymentIntentIds == {"pi_1"}

\* C15: every receipt lookup of the request handlers returns only rows
\* with is_deleted = 0: the lookups by id, by certificate number and by
\* payment-intent id, the row of the edit page and the dashboard's list.
LookupsReturnOnlyActiveRows ==
    /\ \A r \in Ids :
          /\ get_receipt_by_id(receipts, r) # NULL => get_receipt_by_id(receipts, r)[1].is_deleted = 0
          /\ get_receipt_by_certificate_no(receipts, receipts[r].certificate_no) # NULL
             => get_receipt_by_certificate_no(receipts, receipts[r].certificate_no)[1].is_deleted = 0
          /\ AdminEditRow(receipts, r) # NULL => AdminEditRow(receipts, r)[1].is_deleted = 0
    /\ \A i \in 1..Len(ActiveReceiptList(receipts)) :
          receipts[ActiveReceiptList(receipts)[i]].is_deleted = 0
    /\ \A payment_intent_id \in PaymentIntentIds :
          \A r \in get_receipt_by_stripe_payment_intent(receipts, payment_intent_id) :
              receipts[r].is_deleted = 0

(***************************************************************************)
(* The status lifecycle of the payment bridge.                             *)
(***************************************************************************)
\* C16: every status change of a receipt follows the lifecycle:
\* checkout_created is entered only from created or awaiting_payment, paid
\* and payment_failed only from checkout_created, and paid is never left.
\* (In SpecPay the only steps that change the status of a row in the table
\* are create_checkout_session and stripe_webhook.)
PaymentLifecycleFollowed ==
    [][ \A r \in Ids :
          LET old == receipts[r].status
              new == receipts'[r].status
          IN  old # new
              => /\ new = "checkout_created" => old \in {"created", "awaiting_payment"}
                 /\ new \in {"paid", "payment_failed"} => old = "checkout_created"
                 /\ old # "paid" ]_vars

(***************************************************************************)
(* submit(): a failing email, and a rejected form.                         *)
(***************************************************************************)
\* The submission gets as far as the email, and the email fails: the SMTP
\* settings are incomplete, or the SMTP exchange fails.
MailFails(s) ==
    /\ SubmissionResult(s).receipt_id # NULL
    /\ (config.SMTP_USER = "" \/ config.SMTP_PASS = "" \/ config.FROM_MAIL = "" \/ ~s[3])

\* C17: when the receipt email fails during submit, the response is 502,
\* the row created earlier is in the table with no download token, no PDF
\* file is saved, send_receipt_email was called once, and the row's status
\* is mail_failed when the status update reached the database, while a
\* failed status update leaves it created.
MailFailureKeepsRow ==
    \A s \in ValidSubmissions :
        MailFails(s)
        => LET result == SubmissionResult(s)
           IN  /\ result.code = 502
               /\ result.kind = "error"
               /\ result.receipt_id[1] \in DOMAIN result.receipts
               /\ result.receipt_id[1] \notin Ids
               /\ SubmittedRow(s).download_token = NULL
               /\ result.files = files
               /\ result.token = NULL
               /\ result.mail_attempts = 1
               /\ SubmittedRow(s).status = (IF s[4] THEN "mail_failed" ELSE "created")

\* With the SMTP settings unset, submit() has left a receipt in status
\* mail_failed without a download token and without a file.
MailFailureKeepsRowWitness ==
    \E r \in Ids :
        /\ ~SmtpConfigured(config)
        /\ receipts[r].status = "mail_failed"
        /\ receipts[r].download_token = NULL
        /\ files = <<>>

\* C17 as stated: after every failed email the row's status is mail_failed.
MailFailureSetsMailFailed ==
    \A s \in ValidSubmissions :
        MailFails(s)
        => /\ SubmissionResult(s).code = 502
           /\ SubmittedRow(s).status = "mail_failed"
           /\ SubmittedRow(s).download_token = NULL
           /\ SubmissionResult(s).files = files

\* C20: a submission with an empty postal_code, address, email or amount,
\* or with a payment method outside the three allowed ones, is answered
\* 400 with no row inserted, no file saved, no email attempted and no
\* database connection opened.
InvalidFormRejected ==
    \A form \in InvalidForms : \A db_create_ok \in BOOLEAN : \A smtp_ok \in BOOLEAN : \A db_update_ok \in BOOLEAN :
        LET result == SubmitResult(form, db_create_ok, smtp_ok, db_update_ok)
        IN  /\ result.code = 400
            /\ result.receipts = receipts
            /\ result.receipt_id = NULL
            /\ result.auto_increment = auto_increment
            /\ result.files = files
            /\ result.uuid_seq = uuid_seq
            /\ result.mail_attempts = 0
            /\ result.table_exists = table_exists

\* Receipts and files exist, a form without an email is answered 400, and
\* the same form with the email filled in would be stored.
InvalidFormRejectedWitness ==
    \E r \in Ids : \E form \in InvalidForms :
        /\ receipts[r].status = "issued"
        /\ files # <<>>
        /\ form.email = ""
        /\ SubmitResult(form, TRUE, TRUE, TRUE).code = 400
        /\ SubmitResult([form EXCEPT !.email = "sato@example.jp"], TRUE, TRUE, TRUE).receipt_id # NULL

(***************************************************************************)
(* The admin views and the session.                                        *)
(***************************************************************************)
\* C18: while the session holds no dashboard user (never logged in, or
\* logged out), the dashboard and every confirm, delete and edit request
\* are redirected to the login page, open no database connection and leave
\* every receipt as it is.
AdminRequiresLogin ==
    session = NULL
    => /\ \A db_ok \in BOOLEAN :
             /\ AdminDashboardResult(db_ok).code = 302
             /\ AdminDashboardResult(db_ok).kind = "redirect_login"
             /\ ~AdminDashboardResult(db_ok).db_opened
       /\ \A receipt_id \in Ids \cup {auto_increment} : \A db_ok \in BOOLEAN :
             /\ \A checked \in BOOLEAN :
                   AdminConfirmResult(receipt_id, checked, db_ok) = AdminNothing(302, "redirect_login")
             /\ AdminDeleteResult(receipt_id, db_ok) = AdminNothing(302, "redirect_login")
             /\ \A form \in {CardEditForm} \cup InvalidEditForms :
                   AdminEditResult(receipt_id, form, db_ok) = AdminNothing(302, "redirect_login")

\* An admin has confirmed a receipt and logged out; a request that would
\* take the confirmation back is redirected to the login page.
AdminRequiresLoginWitness ==
    \E r \in Ids :
        /\ session = NULL
        /\ receipts[r].is_checked = 1
        /\ receipts[r].checked_by = Some("admin")
        /\ receipts[r].is_deleted = 0
        /\ AdminConfirmResult(r, FALSE, TRUE).code = 302
        /\ AdminConfirmResult(r, FALSE, TRUE).receipts = receipts

(***************************************************************************)
(* create_checkout_session: what it stores.                                *)
(***************************************************************************)
\* C19: a checkout-session request answered 200 was made for a non-deleted
\* credit-card receipt with a valid amount, and stores the new session id
\* on it with status checkout_created, changing no other row; such a
\* request is answered 200 when Stripe is configured, the database
\* reachable and the Stripe call succeeds; and a request that fails because
\* the receipt is not found, Stripe is not configured or the Stripe call
\* fails (as every request not answered 200) leaves the table as it is.
CheckoutStoresSession ==
    \A c \in CheckoutCallsNow :
        LET result == CheckoutCallResult(c)
            row == CheckoutRow(receipts, c[1])
            keyed == ~(c[1].receipt_id # NULL /\ TryInt(c[1].receipt_id[1]).raised)
                     /\ ~(c[1].receipt_id = NULL /\ c[1].certificate_no = <<>>)
            configured == ~(config.STRIPE_SECRET_KEY = "" \/ config.STRIPE_PUBLISHABLE_KEY = "")
        IN  /\ result.code = 200
               => /\ row # NULL
                  /\ row[1].is_deleted = 0
                  /\ normalize_payment_method(row[1].payment_method) = "credit_card"
                  /\ ~parse_amount_yen(row[1].amount_yen).raised
                  /\ result.session_opened
                  /\ result.receipts[row[1].id].status = "checkout_created"
                  /\ result.receipts[row[1].id].stripe_checkout_session_id = Some(c[4])
                  /\ \A r \in Ids \ {row[1].id} : result.receipts[r] = receipts[r]
            /\ ( /\ configured /\ keyed /\ c[2] /\ c[3]
                 /\ row # NULL
                 /\ normalize_payment_method(row[1].payment_method) = "credit_card"
                 /\ ~parse_amount_yen(row[1].amount_yen).raised )
               => result.code = 200
            /\ (~configured \/ ~c[3] \/ (keyed /\ row = NULL) \/ result.code # 200)
               => (result.receipts = receipts /\ result.code # 200)

\* A credit-card receipt awaiting payment for which a request is answered
\* 200, in a table that holds a receipt with a stored session id already.
CheckoutStoresSessionWitness ==
    \E r \in Ids : \E c \in CheckoutCallsNow :
        /\ receipts[r].status = "checkout_created"
        /\ receipts[r].stripe_checkout_session_id = Some("cs_2")
        /\ RequestNames(c[1], r)
        /\ c[4] = "cs_1"
        /\ CheckoutCallResult(c).code = 200
        /\ CheckoutCallResult(c).receipts[r].stripe_checkout_session_id = Some("cs_1")

(***************************************************************************)
(* SpecAdmin: the dashboard at work.  A credit-card donation is submitted, *)
(* its checkout session created and webhook events delivered for it, by    *)
(* metadata id and by payment intent; the two accounts log in and out with *)
(* right and wrong passwords, and confirm, un-confirm, edit and            *)
(* soft-delete rows while the clock runs.  Every handler is one atomic     *)
(* step.                                                                   *)
(***************************************************************************)
InitAdmin == InitWith({DeployedConfig, BareConfig}, {1}, {ClockYear})

AdminEvents ==
    { StripeEvent("evt_1", "checkout.session.completed", Some(<<"1">>), "cs_1", Some("pi_1")),
      StripeEvent("evt_2", "payment_intent.payment_failed", NULL, "pi_1", NULL) }

\* <<username, password>>: both accounts with their passwords, an account
\* with the empty password, an unknown name with the empty password.
AdminLoginAttempts ==
    { <<"admin", "pw_admin">>, <<"user", "pw_user">>, <<"user", "">>, <<"ghost", "">> }

NextAdmin ==
    \/ Tick
    \/ Submit(CardForm, TRUE, TRUE, TRUE)
    \/ CreateCheckoutSession(CheckoutRequest(Some(<<"1">>), <<>>), TRUE, TRUE, "cs_1")
    \/ \E event \in AdminEvents, receipt_id \in {0} \cup Ids : StripeWebhook("event", event, TRUE, receipt_id)
    \/ \E a \in AdminLoginAttempts : AdminLogin(a[1], a[2])
    \/ AdminLogout
    \/ \E checked \in BOOLEAN : AdminConfirm(1, checked, TRUE)
    \/ \E receipt_id \in Ids : AdminDelete(receipt_id, TRUE)
    \/ AdminEdit(1, CardEditForm, TRUE)

SpecAdmin == InitAdmin /\ [][NextAdmin]_vars

(***************************************************************************)
(* The checked stamp.                                                      *)
(***************************************************************************)
\* is_checked, checked_at and checked_by of a row.
CheckedStamp(row) == <<row.is_checked, row.checked_at, row.checked_by>>

\* C21: in every reachable state a receipt with is_checked = 1 carries the
\* name of a dashboard account in checked_by and a time in checked_at, and a
\* receipt with is_checked = 0 has both NULL; and every step that changes
\* the stamp of a row is a confirm request of a logged-in user on a row that
\* is not soft-deleted: it changes nothing else, and when it sets the flag
\* it stores that user and the time of the step.
CheckedStampConsistent ==
    /\ [](\A r \in Ids :
            IF receipts[r].is_checked = 1
            THEN /\ receipts[r].checked_by \in {Some(config.ADMIN_USERNAME), Some(config.USER_USERNAME)}
                 /\ receipts[r].checked_at # NULL
            ELSE /\ receipts[r].is_checked = 0
                 /\ receipts[r].checked_by = NULL
                 /\ receipts[r].checked_at = NULL)
    /\ [][\A r \in Ids :
            CheckedStamp(receipts'[r]) # CheckedStamp(receipts[r])
            => /\ session # NULL
               /\ session' = session
               /\ receipts[r].is_deleted = 0
               /\ receipts' = [receipts EXCEPT ![r].is_checked = receipts'[r].is_checked,
                                               ![r].checked_at = receipts'[r].checked_at,
                                               ![r].checked_by = receipts'[r].checked_by]
               /\ receipts'[r].is_checked = 1
                  => /\ receipts'[r].checked_by = session
                     /\ receipts'[r].checked_at = Some(now)]_vars

\* The row was confirmed by "user" on day 1 and "admin" is logged in now:
\* checked_by names the account that confirmed, not the one in the session.
CheckedStampConsistentWitness ==
    \E r \in Ids :
        /\ receipts[r].is_checked = 1
        /\ receipts[r].checked_by = Some("user")
        /\ receipts[r].checked_at = Some(1)
        /\ receipts[r].status = "paid"
        /\ session = Some("admin")

(***************************************************************************)
(* Soft deletion.                                                          *)
(***************************************************************************)
\* C22: over every step no receipt is removed from the table, and a receipt
\* whose is_deleted is 1 has is_deleted 1 afterwards.
ReceiptsNeverRemoved ==
    [][/\ DOMAIN receipts \subseteq DOMAIN receipts'
       /\ \A r \in Ids : receipts[r].is_deleted = 1 => receipts'[r].is_deleted = 1]_vars

\* A row soft-deleted on day 0 is still in the table on day 1, with an admin
\* logged in, and a second delete request, an edit and an un-confirm of the
\* row leave it deleted.
ReceiptsNeverRemovedWitness ==
    \E r \in Ids :
        /\ receipts[r].is_deleted = 1
        /\ receipts[r].deleted_at = Some(0)
        /\ now = 1
        /\ session = Some("admin")
        /\ AdminDeleteResult(r, TRUE).receipts[r].is_deleted = 1
        /\ AdminEditResult(r, CardEditForm, TRUE).receipts[r].is_deleted = 1
        /\ AdminConfirmResult(r, FALSE, TRUE).receipts[r].is_deleted = 1

\* C23: with every handler one atomic step, a step leaves every field of a
\* soft-deleted receipt as it is, deleted_at and deleted_by apart: no
\* confirm, edit, checkout-session request or webhook event writes to it,
\* whether the event names the receipt in its metadata or is resolved by
\* payment intent.
SoftDeletedFrozen ==
    [][\A r \in Ids :
          receipts[r].is_deleted = 1
          => [receipts'[r] EXCEPT !.deleted_at = receipts[r].deleted_at,
                                  !.deleted_by = receipts[r].deleted_by] = receipts[r]]_vars

\* A paid and confirmed row that carries payment intent pi_1 is soft-deleted
\* and an admin is logged in.  The lookup by payment intent resolves the
\* payment_failed event to this row, the completed event names it in its
\* metadata, and neither event, nor a checkout-session request, an
\* un-confirm or an edit changes the table.
SoftDeletedFrozenWitness ==
    \E r \in Ids :
        /\ receipts[r].is_deleted = 1
        /\ receipts[r].status = "paid"
        /\ receipts[r].is_checked = 1
        /\ receipts[r].stripe_payment_intent_id = Some("pi_1")
        /\ session # NULL
        /\ \A event \in AdminEvents :
              /\ r \in WebhookReceiptIds(receipts, event)
              /\ StripeWebhookResult("event", event, TRUE, r).receipts = receipts
        /\ \E event \in AdminEvents : Some(event.id) # receipts[r].stripe_last_event_id
        /\ CreateCheckoutSessionResult(CheckoutRequest(Some(<<"1">>), <<>>), TRUE, TRUE, "cs_1").code = 404
        /\ AdminConfirmResult(r, FALSE, TRUE).receipts = receipts
        /\ AdminEditResult(r, CardEditForm, TRUE).receipts = receipts

(***************************************************************************)
(* SpecDeleteRace: webhook handlers in steps, as in SpecWebhookRace, while *)
(* a logged-in admin soft-deletes rows.  admin_delete is one UPDATE        *)
(* statement on its own connection and can run between any two steps of a  *)
(* webhook handler.                                                        *)
(***************************************************************************)
InitDeleteRace == InitWith({DeployedConfig}, {1}, {ClockYear})

NextDeleteRace ==
    \/ Tick
    \/ NoHandlerRunning /\ Submit(CardForm, TRUE, TRUE, TRUE)
    \/ NoHandlerRunning /\ CreateCheckoutSession(CheckoutRequest(Some(<<"1">>), <<>>), TRUE, TRUE, "cs_1")
    \/ \E h \in Handlers, event \in RaceEvents, receipt_id \in {0} \cup Ids :
          WebhookBegin(h, "event", event, TRUE, receipt_id)
    \/ \E h \in Handlers : WebhookRead(h)
    \/ \E h \in Handlers : WebhookCompare(h)
    \/ \E h \in Handlers : WebhookWrite(h)
    \/ AdminLogin("admin", "pw_admin")
    \/ \E receipt_id \in Ids : AdminDelete(receipt_id, TRUE)

SpecDeleteRace == InitDeleteRace /\ [][NextDeleteRace]_vars

\* C24: when the webhook handler's read of the row and its UPDATE are
\* separate steps and admin_delete runs in between, no step changes status,
\* paid_at or stripe_last_event_id of a receipt that is soft-deleted when
\* the step is taken.
WebhookNeverWritesDeleted ==
    [][\A r \in Ids :
          receipts[r].is_deleted = 1
          => /\ receipts'[r].status = receipts[r].status
             /\ receipts'[r].paid_at = receipts[r].paid_at
             /\ receipts'[r].stripe_last_event_id = receipts[r].stripe_last_event_id]_vars

(***************************************************************************)
(* What the payment bridge writes.                                         *)
(***************************************************************************)
\* A row with its five payment columns blanked: what is left is the donor
\* fields, amount, payment method, certificate number, download token, dates
\* and the checked and deleted stamps.
NonPaymentPart(row) ==
    [row EXCEPT !.status = "", !.stripe_checkout_session_id = NULL,
                !.stripe_payment_intent_id = NULL, !.stripe_last_event_id = NULL,
                !.paid_at = NULL]

\* Table `after` is `before`, or differs from it at most in payment columns
\* of row `resolved`, where a session id or intent id is replaced only by
\* an id the request carried.
OnlyPaymentFieldsWritten(before, after, resolved, session_carried, intent_carried) ==
    \/ after = before
    \/ /\ DOMAIN after = DOMAIN before
       /\ \A r \in DOMAIN before :
             /\ NonPaymentPart(after[r]) = NonPaymentPart(before[r])
             /\ r \notin resolved => after[r] = before[r]
             /\ after[r].stripe_checkout_session_id # before[r].stripe_checkout_session_id
                => (session_carried # NULL /\ after[r].stripe_checkout_session_id = session_carried)
             /\ after[r].stripe_payment_intent_id # before[r].stripe_payment_intent_id
                => (intent_carried # NULL /\ after[r].stripe_payment_intent_id = intent_carried)
             /\ session_carried = NULL
                => after[r].stripe_checkout_session_id = before[r].stripe_checkout_session_id
             /\ intent_carried = NULL
                => after[r].stripe_payment_intent_id = before[r].stripe_payment_intent_id

LoginSamples == {"admin", "user", "ghost", ""} \X {"pw_admin", "pw_user", "pw_wrong", ""}

\* The username of attempt a is a configured account with a non-empty
\* configured password, and the submitted password equals it.
NamesAccountWithItsPassword(a) ==
    \E account \in { <<config.ADMIN_USERNAME, config.ADMIN_PASSWORD>>,
                     <<config.USER_USERNAME, config.USER_PASSWORD>> } :
        /\ a[1] = account[1]
        /\ account[2] # ""
        /\ a[2] = account[2]

\* C26: a step gives the session a dashboard user only as a login POST that
\* names a configured account with a non-empty configured password and
\* submits that password, and such a step changes nothing else; every other
\* login POST (an account whose configured password is empty, an unknown
\* name with the empty password, a wrong password) is answered 401 and
\* leaves the session as it was, so a session without a dashboard user
\* stays without one.
LoginOnlyWithConfiguredPassword ==
    /\ [](\A a \in LoginSamples :
            ~NamesAccountWithItsPassword(a)
            => /\ AdminLoginResult(a[1], a[2]).code = 401
               /\ AdminLoginResult(a[1], a[2]).session = session)
    /\ [][(session' # session /\ session' # NULL)
          => /\ \E a \in LoginSamples :
                   /\ NamesAccountWithItsPassword(a)
                   /\ session' = Some(a[1])
                   /\ session' = AdminLoginResult(a[1], a[2]).session
             /\ receipts' = receipts]_vars

\* The user account has no configured password, nobody is logged in and a
\* receipt is stored: "user" with the empty password and "ghost" with the
\* empty password are refused and leave the session empty, "admin" with its
\* password is let in.
LoginOnlyWithConfiguredPasswordWitness ==
    /\ config.USER_PASSWORD = ""
    /\ session = NULL
    /\ Ids # {}
    /\ AdminLoginResult("user", "").code = 401
    /\ AdminLoginResult("user", "").session = NULL
    /\ AdminLoginResult("ghost", "").code = 401
    /\ AdminLoginResult("ghost", "").session = NULL
    /\ AdminLoginResult("admin", "pw_admin").session = Some("admin")

\* C26 as worded: after every refused login POST the session holds no
\* dashboard user.
RefusedLoginLeavesNoUser ==
    \A a \in LoginSamples :
        ~NamesAccountWithItsPassword(a) => AdminLoginResult(a[1], a[2]).session = NULL

====
